---- MODULE Spec2Model ----
(***************************************************************************)
(* Weather acquisition layer of djwr: WeatherService (Redis cache ->       *)
(* WeatherData table -> OpenWeatherMap One Call API) and the geocoding     *)
(* search with its retry loop.  Every service call is one action; the      *)
(* environment (Redis, the database, the HTTP provider) answers each       *)
(* request with one of the outcomes the client libraries can produce.      *)
(***************************************************************************)
EXTENDS Integers, Sequences, FiniteSets, TLC

VARIABLES
    redis_client,  \* TRUE when redis.from_url(...) gave a client, FALSE when it is None
    tz,            \* UTC offset (seconds) of the city, as the provider reports it
    now,           \* the wall clock (epoch seconds) when the service was built
    cache,         \* Redis: cache key -> [value, ttl]; the domain is the set of live keys
    store,         \* WeatherData table: a set of rows
    calls,         \* number of service calls made so far
    touched,       \* the forecast periods the calls so far asked for
    last,          \* what the last service call did and returned
    cities,        \* City table: a set of rows
    running        \* the calls in progress in concurrent workers: worker -> its frame

vars == <<redis_client, tz, now, cache, store, calls, touched, last, cities, running>>

-----------------------------------------------------------------------------
(* Bounds of the model *)

MaxCalls == 2
MaxPeriods == 1
HourlyLen == 14
DailyLen == 8

(* Program constants *)

DAY == 86400
HOUR == 3600
max_retries == 3
retry_delay == 1
HourlyLimit == 12
TOLERANCE == 60

Cities == {1}
Offsets == {0, 7200}
StartOfDay == 10 * DAY
Now0 == StartOfDay + 10 * HOUR + HOUR \div 2

(* faulty variant: validation against the model's period choices *)
valid_periods_as_model_choices ==
    {"current", "hourly", "today", "tomorrow", "3days", "week"}

valid_periods == {"today", "tomorrow", "3days", "week", "hourly"}
FORECAST_PERIOD_CHOICES == {"current", "hourly", "today", "tomorrow", "3days", "week"}
RequestedPeriods == valid_periods \cup {"current", "decade"}
target_local_hours == <<2, 5, 8, 11, 14, 17, 20, 23>>
target_hour_set == {2, 5, 8, 11, 14, 17, 20, 23}

-----------------------------------------------------------------------------
(* Optional values: Python's None is <<>>, a present value v is <<v>>. *)

None == <<>>
Some(v) == <<v>>

Range(s) == {s[i] : i \in 1..Len(s)}

Take(s, n) == SubSeq(s, 1, IF Len(s) < n THEN Len(s) ELSE n)

(* list.sort(key=lambda x: x["dt"]): a stable insertion sort by dt *)
RECURSIVE InsertByDt(_, _)
InsertByDt(s, x) ==
    IF s = <<>> THEN <<x>>
    ELSE IF x.dt < s[1].dt THEN <<x>> \o s
    ELSE <<s[1]>> \o InsertByDt(Tail(s), x)

RECURSIVE SortByDt(_)
SortByDt(s) ==
    IF s = <<>> THEN <<>>
    ELSE InsertByDt(SortByDt(SubSeq(s, 1, Len(s) - 1)), s[Len(s)])

(* datetime arithmetic on epoch seconds *)
DayOf(t) == t \div DAY
HourOf(t) == (t % DAY) \div HOUR
MinuteOf(t) == (t % HOUR) \div 60
Abs(n) == IF n < 0 THEN -n ELSE n

-----------------------------------------------------------------------------
(* The One Call API.  A JSON number is [kind |-> "num"], a JSON object is   *)
(* [kind |-> "dict"] with optional members.  Fields that the parsers copy  *)
(* through untouched (humidity, pressure, wind, ...) are left out.         *)

Num(v) == [kind |-> "num", num |-> v]
TempDict(d, lo, hi) == [kind |-> "dict", day |-> d, min |-> lo, max |-> hi]
FeelsDict(d, m) == [kind |-> "dict", day |-> d, morn |-> m]

HourlyItem(t, v) == [dt |-> t, temp |-> Num(v), feels_like |-> Num(v - 1)]
DailyItem(t, v) ==
    [dt |-> t, temp |-> TempDict(Some(v), Some(v - 2), Some(v + 2)),
     feels_like |-> FeelsDict(Some(v - 1), Some(v - 3))]

(* exclude= parameters of the three kinds of weather request *)
ExcludeTimezoneOnly == {"minutely", "daily", "alerts", "current", "hourly"}
ExcludeForCurrent == {"minutely", "daily", "alerts"}
ExcludeForHourly == {"minutely", "daily", "alerts"}
ExcludeForDaily == {"minutely", "hourly", "alerts"}

(* The body the provider sends at time `t` in forecast revision `v`: the   *)
(* sections not excluded, the hourly stream starting at the running hour.  *)
(* shape "bare" is a body with none of the sections (another API version). *)
OneCallBody(exclude, shape, t, v) ==
    IF shape = "bare"
    THEN [timezone_offset |-> None, current |-> None, hourly |-> <<>>, daily |-> <<>>]
    ELSE [timezone_offset |-> Some(tz),
          current |-> IF "current" \in exclude THEN None ELSE Some(HourlyItem(t, v)),
          hourly |-> IF "hourly" \in exclude THEN <<>>
                     ELSE [i \in 1..HourlyLen |->
                              HourlyItem((t \div HOUR) * HOUR + (i - 1) * HOUR, v)],
          daily |-> IF "daily" \in exclude THEN <<>>
                    ELSE [i \in 1..DailyLen |->
                             DailyItem(DayOf(t + tz) * DAY - tz + 12 * HOUR + (i - 1) * DAY, v)]]

(* api_data.get("timezone_offset", 0) *)
timezone_offset_of(api_data) ==
    IF api_data.timezone_offset = None THEN 0 ELSE api_data.timezone_offset[1]

-----------------------------------------------------------------------------
(* WeatherService._parse_current_response *)
_parse_current_response(api_data) ==
    IF api_data.current = None
    THEN << [dt |-> 0, temp |-> 0, feels_like |-> 0] >>
    ELSE LET current == api_data.current[1]
         IN  << [dt |-> current.dt, temp |-> current.temp.num,
                 feels_like |-> current.feels_like.num] >>

(* faulty variant: the minimum of a temperature object preferred to its day value *)
parsed_item_min_first(item) ==
    LET t == item.temp
        f == item.feels_like
    IN  [dt |-> item.dt,
         temp |-> IF t.kind = "dict"
                  THEN IF t.min # None THEN t.min[1]
                       ELSE IF t.day # None THEN t.day[1] ELSE 0
                  ELSE t.num,
         temp_min |-> IF t.kind = "dict" THEN t.min ELSE None,
         temp_max |-> IF t.kind = "dict" THEN t.max ELSE None,
         feels_like |-> IF f.kind = "dict"
                        THEN IF f.morn # None THEN f.morn[1]
                             ELSE IF f.day # None THEN f.day[1] ELSE 0
                        ELSE f.num]

(* the normalisation loop of _parse_forecast_response, one item *)
parsed_item(item) ==
    LET t == item.temp
        f == item.feels_like
    IN  [dt |-> item.dt,
         temp |-> IF t.kind = "dict"
                  THEN IF t.day # None THEN t.day[1]
                       ELSE IF t.min # None THEN t.min[1] ELSE 0
                  ELSE t.num,
         temp_min |-> IF t.kind = "dict" THEN t.min ELSE None,
         temp_max |-> IF t.kind = "dict" THEN t.max ELSE None,
         feels_like |-> IF f.kind = "dict"
                        THEN IF f.day # None THEN f.day[1]
                             ELSE IF f.morn # None THEN f.morn[1] ELSE 0
                        ELSE f.num]

(* faulty variant: the schedule read in UTC, the offset ignored *)
today_items_utc(parsed_items, off, t) ==
    LET keep(item) == /\ DayOf(item.dt) = DayOf(t)
                      /\ HourOf(item.dt) \in target_hour_set
    IN  SortByDt(SelectSeq(parsed_items, keep))

(* period == "today": points of the current local day on a schedule hour *)
today_items(parsed_items, off, t) ==
    LET now_local == t + off
        today_start == DayOf(now_local) * DAY - off
        today_end == today_start + DAY
        keep(item) ==
            /\ today_start <= item.dt /\ item.dt < today_end
            /\ DayOf(item.dt + off) = DayOf(now_local)
            /\ HourOf(item.dt + off) \in target_hour_set
    IN  SortByDt(SelectSeq(parsed_items, keep))

(* period == "tomorrow": distance, in minutes, of an item from a schedule hour *)
diff_minutes(item, target_local_hour, off) ==
    LET hour == HourOf(item.dt + off)
        minutes == MinuteOf(item.dt + off)
        hour_diff0 == hour - target_local_hour
        hour_diff == IF hour_diff0 > 12 THEN hour_diff0 - 24
                     ELSE IF hour_diff0 < -12 THEN hour_diff0 + 24
                     ELSE hour_diff0
    IN  IF hour = target_local_hour THEN Abs(minutes)
        ELSE Abs(hour_diff) * 60 + Abs(minutes)

(* the inner loop: index of the best unused candidate for one hour, 0 if none *)
RECURSIVE best_item(_, _, _, _, _, _, _)
best_item(cands, used, target, off, i, best, min_diff) ==
    IF i > Len(cands) THEN best
    ELSE LET d == diff_minutes(cands[i], target, off)
         IN  IF i \notin used /\ d <= TOLERANCE /\ (best = 0 \/ d < min_diff)
             THEN best_item(cands, used, target, off, i + 1, i, d)
             ELSE best_item(cands, used, target, off, i + 1, best, min_diff)

(* the outer loop over the schedule hours *)
RECURSIVE tomorrow_pick(_, _, _, _, _)
tomorrow_pick(cands, off, k, used, acc) ==
    IF k > Len(target_local_hours) THEN acc
    ELSE LET b == best_item(cands, used, target_local_hours[k], off, 1, 0, 0)
         IN  IF b = 0 THEN tomorrow_pick(cands, off, k + 1, used, acc)
             ELSE tomorrow_pick(cands, off, k + 1, used \cup {b}, Append(acc, cands[b]))

tomorrow_items(parsed_items, off, t) ==
    LET now_local == t + off
        tomorrow_local == now_local + DAY
        tomorrow_start == DayOf(tomorrow_local) * DAY - off
        tomorrow_end == tomorrow_start + DAY
        keep(item) ==
            /\ tomorrow_start <= item.dt /\ item.dt < tomorrow_end
            /\ DayOf(item.dt + off) = DayOf(tomorrow_local)
        tomorrow_candidates == SelectSeq(parsed_items, keep)
    IN  SortByDt(tomorrow_pick(tomorrow_candidates, off, 1, {}, <<>>))

(* faulty variant: every normalised point returned, whatever the period *)
_parse_forecast_response_unsliced(api_data, period, t) ==
    LET forecast_list == IF period \in {"hourly", "today", "tomorrow"}
                         THEN api_data.hourly ELSE api_data.daily
    IN  [i \in 1..Len(forecast_list) |-> parsed_item(forecast_list[i])]

(* WeatherService._parse_forecast_response *)
_parse_forecast_response(api_data, period, t) ==
    LET forecast_list == IF period \in {"hourly", "today", "tomorrow"}
                         THEN api_data.hourly ELSE api_data.daily
        parsed_items == [i \in 1..Len(forecast_list) |-> parsed_item(forecast_list[i])]
        off == timezone_offset_of(api_data)
    IN  IF forecast_list = <<>> THEN <<>>
        ELSE IF period = "hourly" THEN Take(parsed_items, HourlyLimit)
        ELSE IF period = "today" THEN today_items(parsed_items, off, t)
        ELSE IF period = "tomorrow" THEN tomorrow_items(parsed_items, off, t)
        ELSE IF period = "3days" THEN Take(parsed_items, 3)
        ELSE IF period = "week" THEN Take(parsed_items, 7)
        ELSE Take(parsed_items, 1)

(* WeatherService._merge_today_data: a dict keyed by the UTC hour of each   *)
(* point of the current UTC day, saved points first, new points over them. *)
_merge_today_data(saved_data, new_data, t) ==
    LET today_start == DayOf(t) * DAY
        today_end == today_start + DAY
        eligible(item) ==
            /\ today_start <= item.dt /\ item.dt < today_end
            /\ HourOf(item.dt) \in target_hour_set
        all == saved_data \o new_data
        at(h) == {i \in 1..Len(all) : eligible(all[i]) /\ HourOf(all[i].dt) = h}
        Max(S) == CHOOSE m \in S : \A n \in S : n <= m
        hours == SelectSeq(target_local_hours, LAMBDA h : at(h) # {})
    IN  SortByDt([k \in 1..Len(hours) |-> all[Max(at(hours[k]))]])

-----------------------------------------------------------------------------
(* Outcomes of the environment *)

(* datetime.now() / timezone.now() in the running call: a call takes a second *)
Clock == now + calls

(* GET: the entry (or nil), a redis.RedisError, bytes that are no JSON text  *)
(* (json.JSONDecodeError), bytes that are no UTF-8 (UnicodeDecodeError,     *)
(* a ValueError that is not a JSONDecodeError)                              *)
CacheReadOutcomes == {"ok", "redis_error", "decode_error", "unicode_error"}
CacheWriteOutcomes == {"ok", "redis_error"}
DbOutcomes == {"ok", "db_error"}
HttpOutcomes == {"ok", "transport_error", "http_error", "http_429"}
BodyShapes == {"full", "bare"}

(* json.dumps / json.loads: the cache holds text, the callers hold lists *)
Dumps(data) == [json |-> data]
Loads(text) == text.json

(* bool(x) of a Python list *)
Truthy(data) == data # <<>>

(* WeatherService._get_cache_key *)
_get_cache_key(city_id, period) == <<"weather", city_id, period>>

(* faulty variant: one TTL for every period *)
_get_cache_ttl_flat(period) == 600

(* WeatherService._get_cache_ttl *)
_get_cache_ttl(period) ==
    CASE period = "current" -> 600
      [] period = "hourly" -> 900
      [] period = "today" -> 1800
      [] period = "tomorrow" -> 1800
      [] period = "3days" -> 3600
      [] period = "week" -> 3600
      [] OTHER -> 600

(* WeatherService._get_from_cache.  `rd` is what Redis does with the GET.  *)
(* value: None, or Some(the decoded data); ops: the Redis commands issued; *)
(* raised: the exception that the except clause does not name.            *)
_get_from_cache(cache_key, rd) ==
    IF ~redis_client
    THEN [raised |-> "none", value |-> None, ops |-> <<>>]
    ELSE IF rd = "redis_error"
    THEN [raised |-> "none", value |-> None, ops |-> << <<"get", "redis_error">> >>]
    ELSE IF cache_key \notin DOMAIN cache
    THEN [raised |-> "none", value |-> None, ops |-> << <<"get", "nil">> >>]
    ELSE IF rd = "decode_error"
    THEN [raised |-> "none", value |-> None, ops |-> << <<"get", "decode_error">> >>]
    ELSE IF rd = "unicode_error"
    THEN [raised |-> "unicode_error", value |-> None,
          ops |-> << <<"get", "unicode_error">> >>]
    ELSE [raised |-> "none", value |-> Some(Loads(cache[cache_key].value)),
          ops |-> << <<"get", "ok">> >>]

(* faulty variant: _save_to_cache that sets every entry with the default TTL *)
_save_to_cache_default_ttl(cache_key, data, ttl, wr) ==
    IF ~redis_client
    THEN [raised |-> "none", cache |-> cache, ops |-> <<>>]
    ELSE IF wr = "redis_error"
    THEN [raised |-> "none", cache |-> cache, ops |-> << <<"setex", "redis_error">> >>]
    ELSE [raised |-> "none",
          cache |-> [k \in DOMAIN cache \cup {cache_key} |->
                        IF k = cache_key THEN [value |-> Dumps(data), ttl |-> 600]
                        ELSE cache[k]],
          ops |-> << <<"setex", "ok">> >>]

(* WeatherService._save_to_cache.  `wr` is what Redis does with the SETEX. *)
_save_to_cache(cache_key, data, ttl, wr) ==
    IF ~redis_client
    THEN [raised |-> "none", cache |-> cache, ops |-> <<>>]
    ELSE IF wr = "redis_error"
    THEN [raised |-> "none", cache |-> cache, ops |-> << <<"setex", "redis_error">> >>]
    ELSE [raised |-> "none",
          cache |-> [k \in DOMAIN cache \cup {cache_key} |->
                        IF k = cache_key THEN [value |-> Dumps(data), ttl |-> ttl]
                        ELSE cache[k]],
          ops |-> << <<"setex", "ok">> >>]

(* WeatherData.objects.filter(city=..., forecast_period=...).first() *)
filter_first(city, period, dbr) ==
    LET rows == {r \in store : r.city = city /\ r.forecast_period = period}
    IN  IF dbr = "db_error"
        THEN [raised |-> "db_error", row |-> None, ops |-> << <<"first", "db_error">> >>]
        ELSE [raised |-> "none",
              row |-> IF rows = {} THEN None
                      ELSE Some(CHOOSE r \in rows : \A q \in rows : q.fetched_at <= r.fetched_at),
              ops |-> << <<"first", "ok">> >>]

(* faulty variant: objects.create() where update_or_create() belongs *)
update_or_create_inserts(city, period, data, at, dbw) ==
    LET ids == {r.id : r \in store}
        next_id == IF ids = {} THEN 1 ELSE 1 + CHOOSE m \in ids : \A n \in ids : n <= m
    IN  IF dbw = "db_error"
        THEN [raised |-> "db_error", store |-> store,
              ops |-> << <<"update_or_create", "db_error">> >>]
        ELSE [raised |-> "none",
              store |-> store \cup {[id |-> next_id, city |-> city,
                                     forecast_period |-> period,
                                     data |-> data, fetched_at |-> at]},
              ops |-> << <<"update_or_create", "ok">> >>]

(* WeatherData.objects.update_or_create(city=, forecast_period=, defaults=) *)
(* under unique_together (city, forecast_period)                           *)
update_or_create(city, period, data, at, dbw) ==
    LET rows == {r \in store : r.city = city /\ r.forecast_period = period}
        ids == {r.id : r \in store}
        next_id == IF ids = {} THEN 1 ELSE 1 + CHOOSE m \in ids : \A n \in ids : n <= m
    IN  IF dbw = "db_error"
        THEN [raised |-> "db_error", store |-> store,
              ops |-> << <<"update_or_create", "db_error">> >>]
        ELSE [raised |-> "none",
              store |-> IF rows = {}
                        THEN store \cup {[id |-> next_id, city |-> city,
                                          forecast_period |-> period,
                                          data |-> data, fetched_at |-> at]}
                        ELSE {IF r \in rows
                              THEN [r EXCEPT !.data = data, !.fetched_at = at]
                              ELSE r : r \in store},
              ops |-> << <<"update_or_create", "ok">> >>]

(* faulty variant: a failed request is logged and an empty body stands in *)
onecall_request_swallows(exclude, http, shape) ==
    [raised |-> "none",
     api_data |-> Some(OneCallBody(exclude, IF http = "ok" THEN shape ELSE "bare",
                                   Clock, calls + 1)),
     requests |-> << [url |-> "onecall", exclude |-> exclude, q |-> <<>>,
                      response |-> http, body |-> <<>>] >>,
     sleeps |-> <<>>]

(* faulty variant: the request is repeated, with backoff, while the answer is 429 *)
onecall_request_retries(exclude, http, shape) ==
    LET req == [url |-> "onecall", exclude |-> exclude, q |-> <<>>,
                response |-> http, body |-> <<>>]
    IN  [raised |-> IF http = "ok" THEN "none" ELSE http,
         api_data |-> IF http = "ok" THEN Some(OneCallBody(exclude, shape, Clock, calls + 1))
                      ELSE None,
         requests |-> IF http = "http_429" THEN [i \in 1..max_retries |-> req] ELSE <<req>>,
         sleeps |-> IF http = "http_429"
                    THEN [i \in 1..(max_retries - 1) |-> retry_delay * 2 ^ (i - 1)]
                    ELSE <<>>]

(* requests.get(f"{BASE_URL}/onecall", ...); raise_for_status(); json()    *)
(* of the cache-miss path: one request, any RequestException re-raised.    *)
onecall_request(exclude, http, shape) ==
    [raised |-> IF http = "ok" THEN "none" ELSE http,
     api_data |-> IF http = "ok" THEN Some(OneCallBody(exclude, shape, Clock, calls + 1))
                  ELSE None,
     requests |-> << [url |-> "onecall", exclude |-> exclude, q |-> <<>>,
                      response |-> http, body |-> <<>>] >>,
     sleeps |-> <<>>]

(* what a 200 response to the "lightweight" request may carry: a body with *)
(* or without timezone_offset, or text that response.json() cannot decode  *)
TimezoneBodies == BodyShapes \cup {"malformed"}

(* faulty variant: only transport and status errors are caught *)
timezone_request_catches_requests_only(http, shape) ==
    [raised |-> IF http = "ok" /\ shape = "malformed" THEN "malformed_body" ELSE "none",
     timezone_offset |->
        IF http = "ok" /\ shape # "malformed"
        THEN timezone_offset_of(OneCallBody(ExcludeTimezoneOnly, shape, Clock, calls + 1))
        ELSE 0,
     requests |-> << [url |-> "onecall", exclude |-> ExcludeTimezoneOnly, q |-> <<>>,
                      response |-> http,
                      body |-> IF http = "ok" THEN <<shape>> ELSE <<>>] >>,
     sleeps |-> <<>>]

(* the "lightweight" request of the cache-hit path: `except Exception`      *)
(* turns every error of get, raise_for_status and json into offset 0       *)
timezone_request(http, shape) ==
    [raised |-> "none",
     timezone_offset |->
        IF http = "ok" /\ shape # "malformed"
        THEN timezone_offset_of(OneCallBody(ExcludeTimezoneOnly, shape, Clock, calls + 1))
        ELSE 0,
     requests |-> << [url |-> "onecall", exclude |-> ExcludeTimezoneOnly, q |-> <<>>,
                      response |-> http,
                      body |-> IF http = "ok" THEN <<shape>> ELSE <<>>] >>,
     sleeps |-> <<>>]

(* faulty variant: the stored snapshot is looked up for every period *)
read_saved_data_any_period(city, period, dbr) ==
    LET q == filter_first(city, period, dbr)
    IN  [raised |-> "none",
         saved_data |-> IF q.raised = "none" /\ q.row # None /\ Truthy(q.row[1].data)
                        THEN Some(q.row[1].data) ELSE None,
         ops |-> q.ops]

(* Step 2 of fetch_forecast: the stored snapshot that seeds the today merge; *)
(* any exception of the query is logged and ignored.                        *)
read_saved_data(city, period, dbr) ==
    IF period # "today"
    THEN [raised |-> "none", saved_data |-> None, ops |-> <<>>]
    ELSE LET q == filter_first(city, period, dbr)
         IN  [raised |-> "none",
              saved_data |-> IF q.raised = "none" /\ q.row # None /\ Truthy(q.row[1].data)
                             THEN Some(q.row[1].data) ELSE None,
              ops |-> q.ops]

-----------------------------------------------------------------------------
(* What one service call did, as its caller and its collaborators saw it.  *)
(*   outcome   "returned" or "raised";  error: the exception raised        *)
(*   data      the list returned;  timezone_offset: the offset returned    *)
(*   cached    what _get_from_cache returned (None, or Some(list))         *)
(*   fresh     the list built from the provider's answer, if one was built *)
(*   requests  the HTTP requests sent, each with the provider's response   *)
(*   sleeps    the time.sleep() calls;  cache_ops, db_ops: the commands    *)

NoCall ==
    [op |-> "none", city |-> 0, period |-> "", query |-> <<>>,
     outcome |-> "returned", error |-> "none", data |-> <<>>, timezone_offset |-> 0,
     cached |-> None, fresh |-> None, requests |-> <<>>, sleeps |-> <<>>,
     cache_ops |-> <<>>, db_ops |-> <<>>]

(* the view's generic answer to any exception of the engine *)
FetchFailedMessage == "Failed to fetch weather data. Please try again later."

(* faulty variant: the text of the exception sent to the client *)
weather_view_response_with_detail(obs) ==
    [op |-> "weather_view", raw |-> obs.query, city |-> obs.city, period |-> obs.period,
     lookups |-> 1, engine |-> Some(obs),
     status |-> IF obs.outcome = "raised" THEN 500 ELSE 200,
     body |-> IF obs.outcome = "raised"
              THEN [error |-> obs.error]
              ELSE [city |-> obs.city, period |-> obs.period, data |-> obs.data,
                    items_count |-> Len(obs.data),
                    timezone_offset |-> obs.timezone_offset]]

(* weather_view from the return of the engine on: 500 with the generic     *)
(* message for any exception, else 200 with the unified body.  `lookups`   *)
(* counts the City lookups made, `engine` holds the call of the engine.    *)
weather_view_response(obs) ==
    [op |-> "weather_view", raw |-> obs.query, city |-> obs.city, period |-> obs.period,
     lookups |-> 1, engine |-> Some(obs),
     status |-> IF obs.outcome = "raised" THEN 500 ELSE 200,
     body |-> IF obs.outcome = "raised"
              THEN [error |-> FetchFailedMessage]
              ELSE [city |-> obs.city, period |-> obs.period, data |-> obs.data,
                    items_count |-> Len(obs.data),
                    timezone_offset |-> obs.timezone_offset]]

(* the caller takes the result: the view turns it into its response *)
Deliver(obs) == IF obs.op = "weather_view" THEN weather_view_response(obs) ELSE obs

(* a call ends: its observation is published with the state it leaves *)
Finish(obs, new_cache, new_store) ==
    /\ last' = Deliver(obs)
    /\ cache' = new_cache
    /\ store' = new_store
    /\ calls' = calls + 1
    /\ touched' = IF obs.period \in FORECAST_PERIOD_CHOICES
                  THEN touched \cup {obs.period} ELSE touched
    /\ UNCHANGED <<redis_client, tz, now, cities, running>>

(* an outcome other than "ok" is a behaviour only if the command was issued *)
Seen(outcome, kind, ops) == outcome = "ok" \/ <<kind, outcome>> \in Range(ops)

(* WeatherService.fetch_forecast from the cache lookup on (lines 567-660); *)
(* fetch_current_weather (lines 151-218) is the same sequence with period  *)
(* "current", its own exclude list and _parse_current_response.  Redis,    *)
(* the database and the provider answer at the point where each is used.   *)
fetch_as(call) ==
    LET city == call.city
        period == call.period
        cache_key == _get_cache_key(city, period)
        exclude == IF period = "current" THEN ExcludeForCurrent
                   ELSE IF period \in {"hourly", "today", "tomorrow"} THEN ExcludeForHourly
                   ELSE ExcludeForDaily
    IN
    \E rd \in CacheReadOutcomes :
      LET g == _get_from_cache(cache_key, rd)
          c1 == [call EXCEPT !.cached = g.value, !.cache_ops = g.ops]
      IN
      /\ Seen(rd, "get", g.ops)
      /\ IF g.raised # "none"
         THEN Finish([c1 EXCEPT !.outcome = "raised", !.error = g.raised], cache, store)
         ELSE IF g.value # None /\ Truthy(g.value[1])
         THEN \* Step 1: cache hit
              \E tzr \in HttpOutcomes, shape \in TimezoneBodies :
                LET hit == timezone_request(tzr, shape)
                    c2 == [c1 EXCEPT !.requests = hit.requests, !.sleeps = hit.sleeps]
                IN  /\ tzr = "ok" \/ shape = "full"
                    /\ IF hit.raised # "none"
                       THEN Finish([c2 EXCEPT !.outcome = "raised", !.error = hit.raised],
                                   cache, store)
                       ELSE Finish([c2 EXCEPT !.data = g.value[1],
                                              !.timezone_offset = hit.timezone_offset],
                                   cache, store)
         ELSE \* Step 2: the saved data of "today"
              \E dbr \in DbOutcomes :
                LET sd == read_saved_data(city, period, dbr)
                    c2 == [c1 EXCEPT !.db_ops = sd.ops]
                IN
                /\ Seen(dbr, "first", sd.ops)
                /\ IF sd.raised # "none"
                   THEN Finish([c2 EXCEPT !.outcome = "raised", !.error = sd.raised],
                               cache, store)
                   ELSE \* Steps 3, 4: the request to the provider
                        \E http \in HttpOutcomes, shape \in BodyShapes :
                          LET r == onecall_request(exclude, http, shape)
                              c3 == [c2 EXCEPT !.requests = r.requests, !.sleeps = r.sleeps]
                              api_data == r.api_data[1]
                              \* Steps 5, 6: parse, and merge for "today"
                              parsed == IF period = "current"
                                        THEN _parse_current_response(api_data)
                                        ELSE _parse_forecast_response(api_data, period, Clock)
                              weather_data ==
                                  IF period = "today" /\ sd.saved_data # None
                                  THEN _merge_today_data(sd.saved_data[1], parsed, Clock)
                                  ELSE parsed
                              c4 == [c3 EXCEPT !.fresh = Some(weather_data)]
                          IN
                          /\ http = "ok" \/ shape = "full"
                          /\ IF r.raised # "none"
                             THEN Finish([c3 EXCEPT !.outcome = "raised", !.error = r.raised],
                                         cache, store)
                             ELSE \* Step 7: save to Redis
                                  \E cw \in CacheWriteOutcomes :
                                    LET w == _save_to_cache(cache_key, weather_data,
                                                            _get_cache_ttl(period), cw)
                                        c5 == [c4 EXCEPT !.cache_ops = c1.cache_ops \o w.ops]
                                    IN
                                    /\ Seen(cw, "setex", w.ops)
                                    /\ IF w.raised # "none"
                                       THEN Finish([c5 EXCEPT !.outcome = "raised",
                                                              !.error = w.raised],
                                                   w.cache, store)
                                       ELSE \* Step 8: save to the database
                                            \E dbw \in DbOutcomes :
                                              LET u == update_or_create(city, period,
                                                          weather_data, Clock, dbw)
                                                  c6 == [c5 EXCEPT !.db_ops = c2.db_ops \o u.ops]
                                              IN  IF u.raised # "none"
                                                  THEN Finish([c6 EXCEPT !.outcome = "raised",
                                                                         !.error = u.raised],
                                                              w.cache, store)
                                                  ELSE Finish([c6 EXCEPT
                                                                 !.data = weather_data,
                                                                 !.timezone_offset =
                                                                    timezone_offset_of(api_data)],
                                                              w.cache, u.store)

(* the sequence run for a caller of the service itself *)
fetch(op, city, period) ==
    fetch_as([NoCall EXCEPT !.op = op, !.city = city, !.period = period])

(* WeatherService.fetch_current_weather *)
fetch_current_weather(city) == fetch("fetch_current_weather", city, "current")

(* WeatherService.fetch_forecast: the period is validated before anything else *)
fetch_forecast(city, period) ==
    IF period \notin valid_periods
    THEN Finish([NoCall EXCEPT !.op = "fetch_forecast", !.city = city, !.period = period,
                               !.outcome = "raised", !.error = "ValueError"],
                cache, store)
    ELSE fetch("fetch_forecast", city, period)

-----------------------------------------------------------------------------
(* Geocoding search *)

Kyiv == <<"K", "y", "i", "v">>
Queries == {<<>>, <<" ">>, Kyiv, <<" ">> \o Kyiv \o <<" ">>}

GeocodingBodies ==
    { <<>>,
      << [name |-> "Kyiv", country |-> "UA", lat |-> 50, lon |-> 30],
         [name |-> "Kiev", country |-> "US", lat |-> 29, lon |-> -95] >> }

(* str.strip() *)
RECURSIVE lstrip(_)
lstrip(q) == IF q # <<>> /\ q[1] = " " THEN lstrip(Tail(q)) ELSE q
RECURSIVE rstrip(_)
rstrip(q) == IF q # <<>> /\ q[Len(q)] = " " THEN rstrip(SubSeq(q, 1, Len(q) - 1)) ELSE q
strip(q) == rstrip(lstrip(q))

Pow2(n) == 2 ^ n

(* WeatherService._parse_geocoding_response *)
_parse_geocoding_response(api_data) ==
    [i \in 1..Len(api_data) |->
        [name |-> api_data[i].name, country |-> api_data[i].country,
         lat |-> api_data[i].lat, lon |-> api_data[i].lon]]

(* what the geocoder sends back to one request *)
GeocodingResponses ==
    {[status |-> "ok", body |-> b] : b \in GeocodingBodies}
    \cup {[status |-> o, body |-> <<>>] : o \in HttpOutcomes \ {"ok"}}

(* faulty variant: the same wait before every retry *)
wait_time_fixed(attempt) == retry_delay

(* wait_time = retry_delay * (2**attempt) *)
wait_time(attempt) == retry_delay * Pow2(attempt)

(* faulty variant: every exception of the request is retried alike *)
retry_after_any_error(status, attempt) ==
    IF attempt < max_retries - 1
    THEN Some(IF status = "http_429" THEN retry_delay * 2 ^ attempt ELSE retry_delay)
    ELSE None

(* the except clauses of the retry loop: Some(seconds to sleep before the  *)
(* next attempt), or None when the exception is re-raised                  *)
retry_after(status, attempt) ==
    IF status = "http_429"
    THEN IF attempt < max_retries - 1 THEN Some(wait_time(attempt)) ELSE None
    ELSE IF status = "http_error"
    THEN None
    ELSE IF attempt < max_retries - 1 THEN Some(retry_delay) ELSE None

(* the retry loop of WeatherService.search_cities: `outs[attempt + 1]` is   *)
(* the geocoder's response to the request of that attempt                   *)
RECURSIVE search_loop(_, _, _, _)
search_loop(call, q, attempt, outs) ==
    IF attempt >= max_retries
    THEN call
    ELSE LET out == outs[attempt + 1]
             sent == [call EXCEPT !.requests =
                         Append(@, [url |-> "geocoding", exclude |-> {}, q |-> q,
                                    response |-> out.status, body |-> out.body])]
             again == retry_after(out.status, attempt)
         IN  IF out.status = "ok"
             THEN [sent EXCEPT !.data = _parse_geocoding_response(out.body)]
             ELSE IF again # None
             THEN search_loop([sent EXCEPT !.sleeps = Append(@, again[1])],
                              q, attempt + 1, outs)
             ELSE [sent EXCEPT !.outcome = "raised", !.error = out.status]

(* a response to a request that was never sent is no behaviour of its own *)
Unsent == [status |-> "http_error", body |-> <<>>]

(* WeatherService.search_cities *)
search_cities(query) ==
    LET call == [NoCall EXCEPT !.op = "search_cities", !.query = query]
    IN  IF query = <<>> \/ strip(query) = <<>>
        THEN Finish(call, cache, store)
        ELSE \E outs \in [1..max_retries -> GeocodingResponses] :
               LET done == search_loop(call, strip(query), 0, outs)
               IN  /\ \A i \in 1..max_retries : i > Len(done.requests) => outs[i] = Unsent
                   /\ Finish(done, cache, store)

-----------------------------------------------------------------------------
(* The environment: Redis drops an entry whose TTL ran out. *)

Expire(k) ==
    /\ k \in DOMAIN cache
    /\ cache' = [j \in DOMAIN cache \ {k} |-> cache[j]]
    /\ last' = last
    /\ UNCHANGED <<redis_client, tz, now, store, calls, touched, cities, running>>

-----------------------------------------------------------------------------
EmptyCache == [k \in {} |-> None]
NoWorkers == [w \in {} |-> None]

Init ==
    /\ redis_client \in BOOLEAN
    /\ tz \in Offsets
    /\ now = Now0
    /\ cache = EmptyCache
    /\ store = {}
    /\ calls = 0
    /\ touched = {}
    /\ last = NoCall
    /\ cities = {}
    /\ running = NoWorkers

(* the calls of one behaviour ask for at most MaxPeriods forecast periods *)
MayAsk(period) ==
    \/ period \notin FORECAST_PERIOD_CHOICES
    \/ Cardinality(touched \cup {period}) <= MaxPeriods

(* Calls are made one after another: the next one starts when the caller  *)
(* has taken the result of the previous one.                               *)
Idle == last = NoCall

Return ==
    /\ ~Idle
    /\ last' = NoCall
    /\ UNCHANGED <<redis_client, tz, now, cache, store, calls, touched, cities, running>>

FetchCurrentWeather ==
    /\ Idle
    /\ calls < MaxCalls
    /\ MayAsk("current")
    /\ \E city \in Cities : fetch_current_weather(city)

FetchForecast ==
    /\ Idle
    /\ calls < MaxCalls
    /\ \E city \in Cities, period \in RequestedPeriods :
          MayAsk(period) /\ fetch_forecast(city, period)

SearchCities == Idle /\ calls < MaxCalls /\ \E query \in Queries : search_cities(query)

CacheExpiry == Idle /\ \E k \in DOMAIN cache : Expire(k)

Next == FetchCurrentWeather \/ FetchForecast \/ SearchCities \/ Return \/ CacheExpiry

Spec == Init /\ [][Next]_vars

-----------------------------------------------------------------------------
(* CityService: database-first city search *)

MaxCityCalls == 3

(* the characters of the names in use; str.lower() and the collation order *)
chars(name) ==
    CASE name = "Kyiv" -> Kyiv
      [] name = "Kiev" -> <<"K", "i", "e", "v">>
lower_char(c) ==
    CASE c = "K" -> "k"
      [] c = "Y" -> "y"
      [] c = "L" -> "l"
      [] OTHER -> c
lower(s) == [i \in 1..Len(s) |-> lower_char(s[i])]
Contains(s, q) == \E i \in 0..(Len(s) - Len(q)) : SubSeq(s, i + 1, i + Len(q)) = q
Ord(c) ==
    CASE c = "e" -> 1 [] c = "i" -> 2 [] c = "k" -> 3 [] c = "v" -> 4 [] c = "y" -> 5
      [] OTHER -> 0
RECURSIVE LexLess(_, _)
LexLess(a, b) ==
    IF b = <<>> THEN FALSE
    ELSE IF a = <<>> THEN TRUE
    ELSE IF Ord(a[1]) # Ord(b[1]) THEN Ord(a[1]) < Ord(b[1])
    ELSE LexLess(Tail(a), Tail(b))

CityQueries ==
    {<<>>, <<" ">>, Kyiv, <<" ">> \o Kyiv \o <<" ">>, <<"k", "Y">>, <<"K", "i", "e">>, <<"L">>}

(* the geocoder may also list one (name, country) twice *)
CityGeocodingResponses ==
    GeocodingResponses
    \cup {[status |-> "ok",
           body |-> << [name |-> "Kyiv", country |-> "UA", lat |-> 50, lon |-> 30],
                       [name |-> "Kyiv", country |-> "UA", lat |-> 51, lon |-> 31] >>]}

(* Decimal(str(x)) of a whole number of degrees *)
DecimalOfStr(x) == x

(* City.objects.filter(name__icontains=query).order_by("name"), as a list *)
RECURSIVE order_by_name(_)
order_by_name(rows) ==
    IF rows = {} THEN <<>>
    ELSE LET first == CHOOSE r \in rows :
                         \A o \in rows \ {r} :
                            \/ LexLess(lower(chars(r.name)), lower(chars(o.name)))
                            \/ /\ ~LexLess(lower(chars(o.name)), lower(chars(r.name)))
                               /\ r.id < o.id
         IN  <<first>> \o order_by_name(rows \ {first})

name_icontains(rows, query) ==
    {r \in rows : Contains(lower(chars(r.name)), lower(query))}

(* the SELECT of get_or_create: the row of (name, country), if there is one *)
city_get(rows, name, country) ==
    LET found == {r \in rows : r.name = name /\ r.country = country}
    IN  IF found = {} THEN None ELSE Some(CHOOSE r \in found : TRUE)

(* the INSERT of get_or_create under unique_together (name, country) *)
city_insert(rows, name, country, lat, lon) ==
    LET ids == {r.id : r \in rows}
        row == [id |-> IF ids = {} THEN 1 ELSE 1 + CHOOSE m \in ids : \A n \in ids : n <= m,
                name |-> name, country |-> country,
                latitude |-> DecimalOfStr(lat), longitude |-> DecimalOfStr(lon)]
    IN  IF city_get(rows, name, country) # None
        THEN [raised |-> "IntegrityError", cities |-> rows, row |-> None]
        ELSE [raised |-> "none", cities |-> rows \cup {row}, row |-> Some(row)]

(* faulty variant: get_or_create that inserts without looking first *)
get_or_create_city_blind(rows, name, country, lat, lon) ==
    LET ids == {r.id : r \in rows}
        row == [id |-> IF ids = {} THEN 1 ELSE 1 + CHOOSE m \in ids : \A n \in ids : n <= m,
                name |-> name, country |-> country,
                latitude |-> DecimalOfStr(lat), longitude |-> DecimalOfStr(lon)]
    IN  [city |-> row, created |-> TRUE, cities |-> rows \cup {row}]

(* faulty variant: get_or_create that reports every row as created *)
get_or_create_city_always_created(rows, name, country, lat, lon) ==
    LET g == city_get(rows, name, country)
        i == city_insert(rows, name, country, lat, lon)
    IN  IF g # None
        THEN [city |-> g[1], created |-> TRUE, cities |-> rows]
        ELSE [city |-> i.row[1], created |-> TRUE, cities |-> i.cities]

(* CityService.get_or_create_city, run without interference *)
get_or_create_city(rows, name, country, lat, lon) ==
    LET g == city_get(rows, name, country)
        i == city_insert(rows, name, country, lat, lon)
    IN  IF g # None
        THEN [city |-> g[1], created |-> FALSE, cities |-> rows]
        ELSE [city |-> i.row[1], created |-> TRUE, cities |-> i.cities]

(* the loop over api_cities of CityService.search_cities (create_in_db) *)
RECURSIVE create_from_api(_, _, _)
create_from_api(rows, api_cities, result_cities) ==
    IF api_cities = <<>>
    THEN [cities |-> rows, result_cities |-> result_cities]
    ELSE LET city_data == api_cities[1]
             r == get_or_create_city(rows, city_data.name, city_data.country,
                                     city_data.lat, city_data.lon)
         IN  create_from_api(r.cities, Tail(api_cities), Append(result_cities, r.city))

NoCityCall ==
    [op |-> "none", query |-> <<>>, create_in_db |-> FALSE, outcome |-> "returned",
     error |-> "none", data |-> <<>>, kind |-> "none", created |-> FALSE, status |-> 0,
     requests |-> <<>>, sleeps |-> <<>>, db_ops |-> <<>>]

(* faulty variant: the search that asks the geocoder first *)
city_search_api_first(rows, query, create_in_db, outs) ==
    LET api == search_loop(NoCall, strip(query), 0, outs)
    IN  [obs |-> [NoCityCall EXCEPT !.op = "CityService.search_cities", !.query = query,
                                    !.create_in_db = create_in_db, !.data = api.data,
                                    !.kind = "dict", !.requests = api.requests,
                                    !.sleeps = api.sleeps],
         cities |-> rows]

(* faulty variant: the search that stores the candidates whatever the flag *)
city_search_always_creates(rows, query, create_in_db, outs) ==
    LET api == search_loop(NoCall, strip(query), 0, outs)
        made == create_from_api(rows, api.data, <<>>)
    IN  [obs |-> [NoCityCall EXCEPT !.op = "CityService.search_cities", !.query = query,
                                    !.create_in_db = create_in_db, !.data = api.data,
                                    !.kind = "dict", !.requests = api.requests,
                                    !.sleeps = api.sleeps,
                                    !.db_ops = << <<"filter", "ok">> >>],
         cities |-> made.cities]

(* faulty variant: the search that lets the geocoder's exception through *)
city_search_unguarded(rows, query, create_in_db, outs) ==
    LET api == search_loop(NoCall, strip(query), 0, outs)
    IN  [obs |-> [NoCityCall EXCEPT !.op = "CityService.search_cities", !.query = query,
                                    !.create_in_db = create_in_db,
                                    !.outcome = api.outcome, !.error = api.error,
                                    !.data = api.data, !.kind = "dict",
                                    !.requests = api.requests, !.sleeps = api.sleeps,
                                    !.db_ops = << <<"filter", "ok">> >>],
         cities |-> rows]

(* faulty variant: the search that queries the table before testing the query *)
city_search_no_blank_test(rows, query, create_in_db, outs) ==
    [obs |-> [NoCityCall EXCEPT !.op = "CityService.search_cities", !.query = query,
                                !.create_in_db = create_in_db,
                                !.data = order_by_name(name_icontains(rows, strip(query))),
                                !.kind = "City", !.db_ops = << <<"filter", "ok">> >>],
     cities |-> rows]

(* CityService.search_cities: the observation of the call and the City     *)
(* table it leaves; `outs` are the geocoder's responses to the attempts of *)
(* WeatherService.search_cities                                            *)
city_search(rows, query, create_in_db, outs) ==
    LET call == [NoCityCall EXCEPT !.op = "CityService.search_cities", !.query = query,
                                   !.create_in_db = create_in_db]
        q == strip(query)
        db_cities == order_by_name(name_icontains(rows, q))
        looked == [call EXCEPT !.db_ops = << <<"filter", "ok">> >>]
        api == search_loop(NoCall, strip(q), 0, outs)
        asked == [looked EXCEPT !.requests = api.requests, !.sleeps = api.sleeps]
        made == create_from_api(rows, api.data, <<>>)
    IN  IF query = <<>> \/ strip(query) = <<>>
        THEN [obs |-> call, cities |-> rows]
        ELSE IF db_cities # <<>>
        THEN [obs |-> [looked EXCEPT !.data = db_cities, !.kind = "City"], cities |-> rows]
        ELSE IF api.outcome = "raised"
        THEN [obs |-> asked, cities |-> rows]
        ELSE IF api.data = <<>>
        THEN [obs |-> asked, cities |-> rows]
        ELSE IF create_in_db
        THEN [obs |-> [asked EXCEPT
                         !.data = made.result_cities, !.kind = "City",
                         !.db_ops = @ \o [i \in 1..Len(api.data) |-> <<"get_or_create", "ok">>]],
              cities |-> made.cities]
        ELSE [obs |-> [asked EXCEPT !.data = api.data, !.kind = "dict"], cities |-> rows]

(* a City call ends: its observation is published with the table it leaves *)
CityFinish(obs, new_cities) ==
    /\ last' = obs
    /\ cities' = new_cities
    /\ calls' = calls + 1
    /\ UNCHANGED <<redis_client, tz, now, cache, store, touched, running>>

(* the responses to attempts that were not made are no behaviour of their own *)
SentOnly(obs, outs) ==
    \A i \in 1..max_retries : i > Len(obs.requests) => outs[i] = Unsent

CitySearch ==
    /\ Idle
    /\ calls < MaxCityCalls
    /\ \E query \in CityQueries, create_in_db \in BOOLEAN,
          outs \in [1..max_retries -> CityGeocodingResponses] :
          LET r == city_search(cities, query, create_in_db, outs)
          IN  /\ SentOnly(r.obs, outs)
              /\ CityFinish(r.obs, r.cities)

(* city_search_view: GET /api/cities/search/?q= *)
CitySearchView ==
    /\ Idle
    /\ calls < MaxCityCalls
    /\ \E q \in CityQueries, outs \in [1..max_retries -> CityGeocodingResponses] :
          LET query == strip(q)
              r == city_search(cities, query, FALSE, outs)
              view == [r.obs EXCEPT !.op = "city_search_view", !.query = q]
          IN  IF query = <<>>
              THEN /\ outs = [i \in 1..max_retries |-> Unsent]
                   /\ CityFinish([NoCityCall EXCEPT !.op = "city_search_view", !.query = q,
                                                    !.status = 400],
                                 cities)
              ELSE /\ SentOnly(r.obs, outs)
                   /\ CityFinish([view EXCEPT !.status = 200], r.cities)

CityCandidates ==
    { [name |-> "Kyiv", country |-> "UA", lat |-> 50, lon |-> 30],
      [name |-> "Kyiv", country |-> "UA", lat |-> 51, lon |-> 31],
      [name |-> "Kiev", country |-> "US", lat |-> 29, lon |-> -95] }

GetOrCreateCity ==
    /\ Idle
    /\ calls < MaxCityCalls
    /\ \E c \in CityCandidates :
          LET r == get_or_create_city(cities, c.name, c.country, c.lat, c.lon)
          IN  CityFinish([NoCityCall EXCEPT !.op = "get_or_create_city",
                                            !.query = <<c.name, c.country, c.lat, c.lon>>,
                                            !.data = <<r.city>>, !.kind = "City",
                                            !.created = r.created,
                                            !.db_ops = << <<"get_or_create", "ok">> >>],
                         r.cities)

(* get_or_create_city called twice in sequence with the same arguments *)
GetOrCreateCityTwice ==
    /\ Idle
    /\ calls < MaxCityCalls
    /\ \E c \in CityCandidates :
          LET r1 == get_or_create_city(cities, c.name, c.country, c.lat, c.lon)
              r2 == get_or_create_city(r1.cities, c.name, c.country, c.lat, c.lon)
          IN  CityFinish([NoCityCall EXCEPT !.op = "get_or_create_city_twice",
                                            !.query = <<c.name, c.country, c.lat, c.lon>>,
                                            !.data = <<r1.city, r2.city>>, !.kind = "City",
                                            !.created = <<r1.created, r2.created>>,
                                            !.db_ops = << <<"get_or_create", "ok">>,
                                                          <<"get_or_create", "ok">> >>],
                         r2.cities)

(* WeatherService.search_cities called directly, next to the CityService calls *)
GeocoderSearch ==
    /\ calls < MaxCityCalls
    /\ SearchCities

NextCity ==
    \/ CitySearch \/ CitySearchView \/ GetOrCreateCity \/ GetOrCreateCityTwice
    \/ GeocoderSearch \/ Return

SpecCity == Init /\ [][NextCity]_vars

-----------------------------------------------------------------------------

(* Concurrent workers on the City table.  Each worker runs one call; a     *)
(* step is one SQL statement or one HTTP exchange.  The connection is in   *)
(* autocommit mode (PostgreSQL, READ COMMITTED), so a statement sees every *)
(* row committed before it.                                                *)

MaxWorkers == 2
Workers == 1..MaxWorkers

NoFrame ==
    [op |-> "none", pc |-> "done", query |-> <<>>, todo |-> <<>>, data |-> <<>>,
     created |-> <<>>, outcome |-> "returned", error |-> "none"]

(* faulty variant: a City table without the unique_together constraint *)
city_insert_unconstrained(rows, name, country, lat, lon) ==
    LET ids == {r.id : r \in rows}
        row == [id |-> IF ids = {} THEN 1 ELSE 1 + CHOOSE m \in ids : \A n \in ids : n <= m,
                name |-> name, country |-> country,
                latitude |-> DecimalOfStr(lat), longitude |-> DecimalOfStr(lon)]
    IN  [raised |-> "none", cities |-> rows \cup {row}, row |-> Some(row)]

(* the INSERT of a worker: City.objects.create(...) inside get_or_create *)
city_create(rows, name, country, lat, lon) == city_insert(rows, name, country, lat, lon)

(* the candidate a worker is storing is dealt with: on to the next one *)
Stored(f, row, was_created) ==
    LET rest == Tail(f.todo)
    IN  [f EXCEPT !.todo = rest, !.data = Append(@, row),
                  !.created = Append(@, was_created),
                  !.pc = IF rest = <<>> THEN "done" ELSE "get"]

Step(w, f, new_cities) ==
    /\ running' = [running EXCEPT ![w] = f]
    /\ cities' = new_cities
    /\ UNCHANGED <<redis_client, tz, now, cache, store, calls, touched, last>>

(* a request arrives at an idle worker *)
StartGetOrCreate(w) ==
    /\ w \in Workers \ DOMAIN running
    /\ \E c \in CityCandidates :
          running' = running @@ (w :> [NoFrame EXCEPT !.op = "get_or_create_city",
                                                      !.pc = "get", !.todo = <<c>>])
    /\ UNCHANGED <<redis_client, tz, now, cache, store, calls, touched, last, cities>>

StartCitySearch(w) ==
    /\ w \in Workers \ DOMAIN running
    /\ \E query \in {Kyiv, <<"K", "i", "e">>} :
          running' = running @@ (w :> [NoFrame EXCEPT !.op = "CityService.search_cities",
                                                      !.pc = "filter", !.query = query])
    /\ UNCHANGED <<redis_client, tz, now, cache, store, calls, touched, last, cities>>

(* City.objects.filter(name__icontains=query): db_cities.exists() and list() *)
SearchFilter(w) ==
    /\ w \in DOMAIN running /\ running[w].pc = "filter"
    /\ LET f == running[w]
           db_cities == order_by_name(name_icontains(cities, strip(f.query)))
       IN  Step(w, IF db_cities # <<>>
                   THEN [f EXCEPT !.data = db_cities, !.pc = "done"]
                   ELSE [f EXCEPT !.pc = "api"],
                cities)

(* self.weather_service.search_cities(query), with create_in_db=True after it *)
SearchApi(w) ==
    /\ w \in DOMAIN running /\ running[w].pc = "api"
    /\ \E out \in CityGeocodingResponses :
          LET f == running[w]
              api == search_loop(NoCall, strip(f.query), 0, <<out, Unsent, Unsent>>)
          IN  /\ out.status # "http_429"
              /\ Step(w, IF api.outcome = "raised" \/ api.data = <<>>
                         THEN [f EXCEPT !.pc = "done"]
                         ELSE [f EXCEPT !.todo = api.data, !.pc = "get"],
                      cities)

(* get_or_create: self.get(...) *)
GocGet(w) ==
    /\ w \in DOMAIN running /\ running[w].pc = "get"
    /\ LET f == running[w]
           c == f.todo[1]
           g == city_get(cities, c.name, c.country)
       IN  Step(w, IF g # None THEN Stored(f, g[1], FALSE) ELSE [f EXCEPT !.pc = "insert"],
                cities)

(* get_or_create: with transaction.atomic(): self.create(...) *)
GocInsert(w) ==
    /\ w \in DOMAIN running /\ running[w].pc = "insert"
    /\ LET f == running[w]
           c == f.todo[1]
           i == city_create(cities, c.name, c.country, c.lat, c.lon)
       IN  Step(w, IF i.raised = "none" THEN Stored(f, i.row[1], TRUE)
                   ELSE [f EXCEPT !.pc = "reget"],
                i.cities)

(* get_or_create: except IntegrityError: self.get(...), else re-raise *)
GocReget(w) ==
    /\ w \in DOMAIN running /\ running[w].pc = "reget"
    /\ LET f == running[w]
           c == f.todo[1]
           g == city_get(cities, c.name, c.country)
       IN  Step(w, IF g # None THEN Stored(f, g[1], FALSE)
                   ELSE [f EXCEPT !.pc = "done", !.outcome = "raised",
                                  !.error = "IntegrityError"],
                cities)

NextCityRace ==
    \E w \in Workers :
        \/ StartGetOrCreate(w) \/ StartCitySearch(w)
        \/ SearchFilter(w) \/ SearchApi(w)
        \/ GocGet(w) \/ GocInsert(w) \/ GocReget(w)

SpecCityRace == Init /\ [][NextCityRace]_vars

-----------------------------------------------------------------------------

(* The today merge on its own: a snapshot stored by a "today" fetch some   *)
(* hours ago is merged with the points of a fetch made now.                *)

MaxGap == 12

InitMerge ==
    /\ redis_client = TRUE
    /\ tz \in Offsets
    /\ now \in {StartOfDay + h * HOUR + HOUR \div 2 : h \in 0..23}
    /\ cache = EmptyCache
    /\ store = {}
    /\ calls = 0
    /\ touched = {}
    /\ last = NoCall
    /\ cities = {}
    /\ running = NoWorkers

(* Steps 2, 5 and 6 of fetch_forecast for "today", the saved data being    *)
(* what the fetch of `gap` hours ago parsed                                *)
MergeToday ==
    /\ last = NoCall
    /\ \E gap \in 0..MaxGap :
          LET t0 == now - gap * HOUR
              saved_data == _parse_forecast_response(
                                OneCallBody(ExcludeForHourly, "full", t0, 1), "today", t0)
              new_data == _parse_forecast_response(
                              OneCallBody(ExcludeForHourly, "full", now, 2), "today", now)
          IN  /\ Truthy(saved_data)
              /\ last' = [op |-> "_merge_today_data", gap |-> gap,
                          saved_data |-> saved_data, new_data |-> new_data,
                          data |-> _merge_today_data(saved_data, new_data, now)]
    /\ UNCHANGED <<redis_client, tz, now, cache, store, calls, touched, cities, running>>

SpecMerge == InitMerge /\ [][MergeToday]_vars

-----------------------------------------------------------------------------

(* Concurrent fetches.  Each worker runs one fetch; a step is one Redis    *)
(* command, one SQL statement or one HTTP exchange, Redis, the database    *)
(* and the provider all answering.                                         *)

RacePeriods == {"current", "today"}

FetchFrame ==
    [op |-> "none", pc |-> "done", city |-> 0, period |-> "", cached |-> None,
     saved_data |-> None, weather_data |-> None, data |-> <<>>,
     outcome |-> "returned", error |-> "none"]

FetchStep(w, f, new_cache, new_store) ==
    /\ running' = [running EXCEPT ![w] = f]
    /\ cache' = new_cache
    /\ store' = new_store
    /\ UNCHANGED <<redis_client, tz, now, touched, last, cities>>

(* the SELECT ... FOR UPDATE of update_or_create *)
weather_get(rows, city, period) ==
    LET found == {r \in rows : r.city = city /\ r.forecast_period = period}
    IN  IF found = {} THEN None ELSE Some(CHOOSE r \in found : TRUE)

(* faulty variant: a WeatherData table without the unique_together constraint *)
weather_insert_unconstrained(rows, city, period, data, at) ==
    LET ids == {r.id : r \in rows}
        row == [id |-> IF ids = {} THEN 1 ELSE 1 + CHOOSE m \in ids : \A n \in ids : n <= m,
                city |-> city, forecast_period |-> period, data |-> data, fetched_at |-> at]
    IN  [raised |-> "none", store |-> rows \cup {row}]

(* the INSERT of update_or_create under unique_together (city, forecast_period) *)
weather_insert(rows, city, period, data, at) ==
    LET ids == {r.id : r \in rows}
        row == [id |-> IF ids = {} THEN 1 ELSE 1 + CHOOSE m \in ids : \A n \in ids : n <= m,
                city |-> city, forecast_period |-> period, data |-> data, fetched_at |-> at]
    IN  IF weather_get(rows, city, period) # None
        THEN [raised |-> "IntegrityError", store |-> rows]
        ELSE [raised |-> "none", store |-> rows \cup {row}]

(* obj.save() of update_or_create, with the defaults set on the row *)
weather_save(rows, city, period, data, at) ==
    {IF r.city = city /\ r.forecast_period = period
     THEN [r EXCEPT !.data = data, !.fetched_at = at] ELSE r : r \in rows}

(* a fetch request arrives at an idle worker *)
StartFetch(w) ==
    /\ w \in Workers \ DOMAIN running
    /\ \E city \in Cities, period \in RacePeriods :
          /\ MayAsk(period)
          /\ touched' = touched \cup {period}
          /\ running' = running @@
                (w :> [FetchFrame EXCEPT
                         !.op = IF period = "current" THEN "fetch_current_weather"
                                ELSE "fetch_forecast",
                         !.pc = "cache_get", !.city = city, !.period = period])
    /\ UNCHANGED <<redis_client, tz, now, cache, store, calls, last, cities>>

(* Step 1: _get_from_cache; a hit ends the fetch with the cached list *)
FetchCacheGet(w) ==
    /\ w \in DOMAIN running /\ running[w].pc = "cache_get"
    /\ LET f == running[w]
           g == _get_from_cache(_get_cache_key(f.city, f.period), "ok")
       IN  FetchStep(w, IF g.value # None /\ Truthy(g.value[1])
                        THEN [f EXCEPT !.cached = g.value, !.data = g.value[1], !.pc = "done"]
                        ELSE [f EXCEPT !.pc = "saved"],
                     cache, store)
    /\ UNCHANGED calls

(* Step 2: the saved data of "today" *)
FetchSaved(w) ==
    /\ w \in DOMAIN running /\ running[w].pc = "saved"
    /\ LET f == running[w]
           sd == read_saved_data(f.city, f.period, "ok")
       IN  FetchStep(w, [f EXCEPT !.saved_data = sd.saved_data, !.pc = "api"], cache, store)
    /\ UNCHANGED calls

(* Steps 3 to 6: the request to the provider, parse and merge *)
FetchApi(w) ==
    /\ w \in DOMAIN running /\ running[w].pc = "api"
    /\ calls < MaxWorkers
    /\ LET f == running[w]
           exclude == IF f.period = "current" THEN ExcludeForCurrent ELSE ExcludeForHourly
           api_data == onecall_request(exclude, "ok", "full").api_data[1]
           parsed == IF f.period = "current" THEN _parse_current_response(api_data)
                     ELSE _parse_forecast_response(api_data, f.period, Clock)
           weather_data == IF f.period = "today" /\ f.saved_data # None
                           THEN _merge_today_data(f.saved_data[1], parsed, Clock)
                           ELSE parsed
       IN  FetchStep(w, [f EXCEPT !.weather_data = Some(weather_data), !.pc = "setex"],
                     cache, store)
    /\ calls' = calls + 1

(* Step 7: _save_to_cache *)
FetchSetex(w) ==
    /\ w \in DOMAIN running /\ running[w].pc = "setex"
    /\ LET f == running[w]
           s == _save_to_cache(_get_cache_key(f.city, f.period), f.weather_data[1],
                               _get_cache_ttl(f.period), "ok")
       IN  FetchStep(w, [f EXCEPT !.pc = "uoc_get"], s.cache, store)
    /\ UNCHANGED calls

(* Step 8, update_or_create: select_for_update().get(...); the row stays   *)
(* locked until the save, so the SELECT waits while another worker has it  *)
FetchUocGet(w) ==
    /\ w \in DOMAIN running /\ running[w].pc = "uoc_get"
    /\ LET f == running[w]
       IN  /\ \A v \in DOMAIN running \ {w} :
                 ~(/\ running[v].pc = "uoc_save" /\ running[v].city = f.city
                   /\ running[v].period = f.period)
           /\ FetchStep(w, IF weather_get(store, f.city, f.period) # None
                           THEN [f EXCEPT !.pc = "uoc_save"]
                           ELSE [f EXCEPT !.pc = "uoc_insert"],
                        cache, store)
    /\ UNCHANGED calls

(* update_or_create: the create of get_or_create, in a savepoint; on       *)
(* IntegrityError the row is read again, locked, and saved                 *)
FetchUocInsert(w) ==
    /\ w \in DOMAIN running /\ running[w].pc = "uoc_insert"
    /\ LET f == running[w]
           i == weather_insert(store, f.city, f.period, f.weather_data[1], Clock)
       IN  FetchStep(w, IF i.raised = "none"
                        THEN [f EXCEPT !.data = f.weather_data[1], !.pc = "done"]
                        ELSE [f EXCEPT !.pc = "uoc_get"],
                     cache, i.store)
    /\ UNCHANGED calls

(* update_or_create: setattr(obj, defaults); obj.save() *)
FetchUocSave(w) ==
    /\ w \in DOMAIN running /\ running[w].pc = "uoc_save"
    /\ LET f == running[w]
       IN  FetchStep(w, [f EXCEPT !.data = f.weather_data[1], !.pc = "done"],
                     cache, weather_save(store, f.city, f.period, f.weather_data[1], Clock))
    /\ UNCHANGED calls

NextFetchRace ==
    \E w \in Workers :
        \/ StartFetch(w) \/ FetchCacheGet(w) \/ FetchSaved(w) \/ FetchApi(w)
        \/ FetchSetex(w) \/ FetchUocGet(w) \/ FetchUocInsert(w) \/ FetchUocSave(w)

SpecFetchRace == Init /\ [][NextFetchRace]_vars

-----------------------------------------------------------------------------

(* The parsers on their own: one provider body, parsed at time `now` for a *)
(* location at offset `tz`.                                                *)

StreamLen == 48

(* timezone_offset of Pago Pago, UTC, Kyiv, Kolkata, Kathmandu and Apia *)
ParseOffsets == {-39600, 0, 7200, 19800, 20700, 46800}
ParseHours == {1, 4, 7, 10, 13, 16, 19, 22}
TempShapes == {"full", "no_day", "empty", "number"}

(* "temp" of an entry: a number, or an object with or without day/min/max *)
temp_of(shape, v) ==
    CASE shape = "full" -> TempDict(Some(v), Some(v - 2), Some(v + 2))
      [] shape = "no_day" -> TempDict(None, Some(v - 2), Some(v + 2))
      [] shape = "empty" -> TempDict(None, None, None)
      [] OTHER -> Num(v)

(* "feels_like" of an entry: a number, or an object with or without day/morn *)
feels_of(shape, v) ==
    CASE shape = "full" -> FeelsDict(Some(v - 1), Some(v - 3))
      [] shape = "no_day" -> FeelsDict(None, Some(v - 3))
      [] shape = "empty" -> FeelsDict(None, None)
      [] OTHER -> Num(v - 1)

(* "hourly" of a body: StreamLen points from the running hour on, those of *)
(* the `w` UTC hours of day from `g` on missing                            *)
HourlyStream(t, v, g, w) ==
    LET full == [i \in 1..StreamLen |->
                    HourlyItem((t \div HOUR) * HOUR + (i - 1) * HOUR, v)]
    IN  SelectSeq(full, LAMBDA item : (HourOf(item.dt) - g) % 24 >= w)

(* "daily" of a body: n points at local noon, from the current local day on *)
DailyStream(t, v, n, ts, fs) ==
    [i \in 1..n |->
        [dt |-> DayOf(t + tz) * DAY - tz + 12 * HOUR + (i - 1) * DAY,
         temp |-> temp_of(ts, v + i), feels_like |-> feels_of(fs, v + i)]]

InitParse ==
    /\ redis_client = TRUE
    /\ tz \in ParseOffsets
    /\ now \in {StartOfDay + h * HOUR + HOUR \div 2 : h \in ParseHours}
    /\ cache = EmptyCache
    /\ store = {}
    /\ calls = 0
    /\ touched = {}
    /\ last = NoCall
    /\ cities = {}
    /\ running = NoWorkers

(* _parse_forecast_response on a body with an hourly section *)
ParseHourly ==
    /\ last = NoCall
    /\ \E period \in {"hourly", "today", "tomorrow"}, g \in 0..23, w \in 0..2 :
          LET api_data == [timezone_offset |-> Some(tz), current |-> None,
                           hourly |-> HourlyStream(now, 1, g, w), daily |-> <<>>]
          IN  last' = [op |-> "_parse_forecast_response", period |-> period,
                       api_data |-> api_data,
                       data |-> _parse_forecast_response(api_data, period, now)]
    /\ UNCHANGED <<redis_client, tz, now, cache, store, calls, touched, cities, running>>

(* _parse_forecast_response on a body with a daily section *)
ParseDaily ==
    /\ last = NoCall
    /\ \E period \in {"3days", "week"}, n \in 0..DailyLen,
          ts \in TempShapes, fs \in TempShapes :
          LET api_data == [timezone_offset |-> Some(tz), current |-> None,
                           hourly |-> <<>>,
                           daily |-> DailyStream(now, 1, n, ts, fs)]
          IN  last' = [op |-> "_parse_forecast_response", period |-> period,
                       api_data |-> api_data,
                       data |-> _parse_forecast_response(api_data, period, now)]
    /\ UNCHANGED <<redis_client, tz, now, cache, store, calls, touched, cities, running>>

(* _parse_current_response on a body with or without its current section *)
ParseCurrent ==
    /\ last = NoCall
    /\ \E shape \in BodyShapes :
          LET api_data == OneCallBody(ExcludeForCurrent, shape, now, 1)
          IN  last' = [op |-> "_parse_current_response", period |-> "current",
                       api_data |-> api_data,
                       data |-> _parse_current_response(api_data)]
    /\ UNCHANGED <<redis_client, tz, now, cache, store, calls, touched, cities, running>>

NextParse == ParseHourly \/ ParseDaily \/ ParseCurrent \/ MergeToday

SpecParse == InitParse /\ [][NextParse]_vars

-----------------------------------------------------------------------------

(* The weather endpoint: GET /api/weather/{city_id}/?period={period}       *)

(* the period parameter as sent: absent, or text; a period name is one     *)
(* token of the text, a blank is another                                   *)
RawPeriods ==
    {None, Some(<<"current">>), Some(<<"today">>), Some(<<" ", "today", " ">>),
     Some(<<"decade">>), Some(<<>>)}

(* primary keys asked for: the row of InitView and one that does not exist *)
CityIds == {1, 2}

(* the list valid_periods of weather_view *)
view_valid_periods == {"current", "hourly", "today", "tomorrow", "3days", "week"}

(* request.query_params.get("period", "current").strip() *)
query_period(raw) ==
    IF raw = None THEN "current"
    ELSE LET q == strip(raw[1])
         IN  IF q = <<>> THEN "" ELSE IF Len(q) = 1 THEN q[1] ELSE "?"

(* get_object_or_404(City, pk=city_id) *)
get_object_or_404(rows, pk) ==
    LET found == {r \in rows : r.id = pk}
    IN  IF found = {} THEN None ELSE Some(CHOOSE r \in found : TRUE)

(* a response of the view made without the engine *)
ViewFinish(resp) ==
    /\ last' = resp
    /\ calls' = calls + 1
    /\ UNCHANGED <<redis_client, tz, now, cache, store, touched, cities, running>>

InvalidPeriod(city_id, raw, period, lookups) ==
    [op |-> "weather_view", raw |-> raw, city |-> city_id, period |-> period,
     lookups |-> lookups, engine |-> None, status |-> 400,
     body |-> [error |-> "Invalid period. Valid options"]]

NotFound(city_id, raw, period) ==
    [op |-> "weather_view", raw |-> raw, city |-> city_id, period |-> period,
     lookups |-> 1, engine |-> None, status |-> 404,
     body |-> [detail |-> "Not found."]]

(* faulty variant: the city is looked up before the period is validated *)
weather_view_city_first(city_id, raw) ==
    LET period == query_period(raw)
    IN  IF get_object_or_404(cities, city_id) = None
        THEN ViewFinish(NotFound(city_id, raw, period))
        ELSE IF period \notin view_valid_periods
        THEN ViewFinish(InvalidPeriod(city_id, raw, period, 1))
        ELSE fetch_as([NoCall EXCEPT !.op = "weather_view", !.city = city_id,
                                     !.period = period, !.query = raw])

(* weather_view: the period is validated, the city looked up, the engine   *)
(* called (fetch_current_weather for "current", else fetch_forecast, which *)
(* finds the period valid) and its result or exception answered            *)
weather_view(city_id, raw) ==
    LET period == query_period(raw)
    IN  IF period \notin view_valid_periods
        THEN ViewFinish(InvalidPeriod(city_id, raw, period, 0))
        ELSE IF get_object_or_404(cities, city_id) = None
        THEN ViewFinish(NotFound(city_id, raw, period))
        ELSE fetch_as([NoCall EXCEPT !.op = "weather_view", !.city = city_id,
                                     !.period = period, !.query = raw])

InitView ==
    /\ redis_client \in BOOLEAN
    /\ tz \in Offsets
    /\ now = Now0
    /\ cache = EmptyCache
    /\ store = {}
    /\ calls = 0
    /\ touched = {}
    /\ last = NoCall
    /\ cities = {[id |-> 1, name |-> "Kyiv", country |-> "UA",
                  latitude |-> 50, longitude |-> 30]}
    /\ running = NoWorkers

WeatherView ==
    /\ Idle
    /\ calls < MaxCalls
    /\ \E city_id \in CityIds, raw \in RawPeriods :
          MayAsk(query_period(raw)) /\ weather_view(city_id, raw)

NextView == WeatherView \/ Return \/ CacheExpiry

SpecView == InitView /\ [][NextView]_vars

-----------------------------------------------------------------------------

(* Subscription.is_due_for_notification *)

(* Subscription.PERIOD_CHOICES, in hours *)
PERIOD_CHOICES == {1, 3, 6, 12}

(* seconds between last_notified_at and now(): around every period, and a  *)
(* last_notified_at that lies ahead of the clock                           *)
ElapsedSeconds == {p * HOUR + d : p \in PERIOD_CHOICES \cup {0}, d \in {-1, 0, 1}}

(* faulty variant: a subscription never notified is due, active or not *)
is_due_for_notification_never_notified_first(self, t) ==
    IF self.last_notified_at = None THEN TRUE
    ELSE IF ~self.is_active THEN FALSE
    ELSE (t - self.last_notified_at[1]) >= self.period * HOUR

(* Subscription.is_due_for_notification at time t = timezone.now();        *)
(* total_seconds() / 3600 >= period is seconds >= period * 3600            *)
is_due_for_notification(self, t) ==
    IF ~self.is_active THEN FALSE
    ELSE IF self.last_notified_at = None THEN TRUE
    ELSE LET time_diff == t - self.last_notified_at[1]
         IN  time_diff >= self.period * HOUR

InitDue ==
    /\ redis_client = TRUE
    /\ tz = 0
    /\ now \in {Now0, Now0 + HOUR \div 2}
    /\ cache = EmptyCache
    /\ store = {}
    /\ calls = 0
    /\ touched = {}
    /\ last = NoCall
    /\ cities = {}
    /\ running = NoWorkers

(* one call of the method on one subscription *)
IsDueForNotification ==
    /\ last = NoCall
    /\ \E is_active \in BOOLEAN, period \in PERIOD_CHOICES,
          last_notified_at \in {None} \cup {Some(now - e) : e \in ElapsedSeconds} :
          LET self == [is_active |-> is_active, period |-> period,
                       last_notified_at |-> last_notified_at]
          IN  last' = [op |-> "is_due_for_notification", self |-> self, now |-> now,
                       result |-> is_due_for_notification(self, now)]
    /\ UNCHANGED <<redis_client, tz, now, cache, store, calls, touched, cities, running>>

SpecDue == InitDue /\ [][IsDueForNotification]_vars

-----------------------------------------------------------------------------

(* Vocabulary of the properties *)

Fetched(obs) == obs.op \in {"fetch_current_weather", "fetch_forecast"}

(* a step in which a service call runs, from start to return *)
CallStep == last = NoCall /\ last' # NoCall

(* the requests for weather data: every /onecall request that does not    *)
(* exclude all three of the current, hourly and daily streams              *)
WeatherRequests(obs) ==
    SelectSeq(obs.requests,
              LAMBDA r : r.url = "onecall" /\ ~({"current", "hourly", "daily"} \subseteq r.exclude))

KeyOf(obs) == <<"weather", obs.city, obs.period>>
RowsOf(rows, city, period) == {r \in rows : r.city = city /\ r.forecast_period = period}
Count(ops, kind) == Len(SelectSeq(ops, LAMBDA o : o[1] = kind))
GetFailed(obs) ==
    \E e \in {"redis_error", "decode_error", "unicode_error"} :
        <<"get", e>> \in Range(obs.cache_ops)
SetFailed(obs) == <<"setex", "redis_error">> \in Range(obs.cache_ops)
UpstreamErrors == {"transport_error", "http_error", "http_429"}

(* the TTL table of the specification, in seconds *)
TtlTable(period) ==
    CASE period = "current" -> 600
      [] period = "hourly" -> 900
      [] period \in {"today", "tomorrow"} -> 1800
      [] period \in {"3days", "week"} -> 3600

-----------------------------------------------------------------------------
(* C1: whenever the cache returns an entry for the key of (location,       *)
(* period), whatever list it holds, the fetch returns that list unchanged  *)
(* and sends no request for weather data (only the timezone request).      *)
C1_CacheEntryIsReturned ==
    (Fetched(last) /\ last.cached # None)
        => /\ last.outcome = "returned"
           /\ last.data = last.cached[1]
           /\ WeatherRequests(last) = <<>>

(* C2: after a successful cache-miss fetch with Redis and the database     *)
(* working, the cache holds under (city id, period) exactly the returned   *)
(* list with the TTL of the period, and the row of (city, period) holds    *)
(* the same list.                                                          *)
C2_MissWritesCacheAndStore ==
    (/\ Fetched(last) /\ last.outcome = "returned" /\ last.fresh # None
     /\ <<"setex", "ok">> \in Range(last.cache_ops))
        => /\ KeyOf(last) \in DOMAIN cache
           /\ cache[KeyOf(last)] = [value |-> Dumps(last.data), ttl |-> TtlTable(last.period)]
           /\ \E r \in store : /\ RowsOf(store, last.city, last.period) = {r}
                               /\ r.data = last.data

C2_Witness ==
    /\ last.op = "fetch_forecast" /\ last.period = "today" /\ last.outcome = "returned"
    /\ last.fresh # None /\ last.data # <<>>
    /\ <<"setex", "ok">> \in Range(last.cache_ops)
    /\ last.cached = None

(* C3: no Redis failure makes a fetch fail.  A GET that raises or yields   *)
(* undecodable text counts as a miss, a SETEX that raises changes nothing, *)
(* and the fetch returns the list built from the provider's answer unless  *)
(* the provider or the database failed.                                    *)
C3_CacheFailuresAreAbsorbed ==
    [][(CallStep /\ Fetched(last') /\ (GetFailed(last') \/ SetFailed(last')))
          => /\ GetFailed(last') => (last'.cached = None /\ Len(WeatherRequests(last')) = 1)
             /\ SetFailed(last') => cache' = cache
             /\ \/ /\ last'.outcome = "returned"
                   /\ last'.fresh = Some(last'.data)
                   /\ WeatherRequests(last')[1].response = "ok"
                \/ /\ last'.outcome = "raised"
                   /\ last'.error \in UpstreamErrors
                   /\ WeatherRequests(last')[1].response = last'.error
                \/ /\ last'.outcome = "raised"
                   /\ last'.error = "db_error"
                   /\ <<"update_or_create", "db_error">> \in Range(last'.db_ops)]_vars

(* C4: fetch_forecast with a period outside {hourly, today, tomorrow,      *)
(* 3days, week} raises the invalid-period error and does nothing else: no  *)
(* Redis command, no database query, no HTTP request, no change of state.  *)
C4_InvalidPeriodRejectedFirst ==
    [][(/\ CallStep /\ last'.op = "fetch_forecast"
        /\ last'.period \notin {"hourly", "today", "tomorrow", "3days", "week"})
          => /\ last'.outcome = "raised" /\ last'.error = "ValueError"
             /\ last'.cache_ops = <<>> /\ last'.db_ops = <<>> /\ last'.requests = <<>>
             /\ cache' = cache /\ store' = store]_vars

C4_Witness ==
    /\ last.op = "fetch_forecast" /\ last.period = "current"
    /\ last.error = "ValueError" /\ store # {} /\ DOMAIN cache # {}

(* C5: on a cache miss, when the weather request fails with a transport    *)
(* error or an HTTP error status, the fetch raises that error and returns  *)
(* no list.                                                                *)
C5_UpstreamFailurePropagates ==
    (/\ Fetched(last) /\ WeatherRequests(last) # <<>>
     /\ WeatherRequests(last)[Len(WeatherRequests(last))].response \in UpstreamErrors)
        => /\ last.outcome = "raised"
           /\ last.error = WeatherRequests(last)[Len(WeatherRequests(last))].response
           /\ last.data = <<>> /\ last.fresh = None

C5_Witness ==
    /\ last.op = "fetch_forecast" /\ last.period = "today" /\ last.outcome = "raised"
    /\ last.error = "transport_error"
    /\ RowsOf(store, last.city, "today") # {}

C7_SearchBackoff ==
    (last.op = "search_cities" /\ last.requests # <<>>)
        => LET n == Len(last.requests)
           IN  /\ n <= 3
               /\ (\A i \in 1..n : last.requests[i].response = "http_429")
                     => /\ n = 3
                        /\ last.sleeps = <<1, 2>>
                        /\ last.outcome = "raised" /\ last.error = "http_429"
               /\ \A i \in 1..n :
                     last.requests[i].response = "ok"
                        => /\ i = n
                           /\ last.outcome = "returned"
                           /\ last.data = _parse_geocoding_response(last.requests[i].body)
               /\ \A i \in 1..(n - 1) :
                     last.requests[i].response = "http_429" => last.sleeps[i] = 2 ^ (i - 1)

C7_Witness ==
    /\ last.op = "search_cities" /\ Len(last.requests) = 3
    /\ \A i \in 1..3 : last.requests[i].response = "http_429"

(* C8, as stated: in search_cities a transport failure or a non-429 HTTP   *)
(* error status ends the call after a single attempt and propagates.       *)
C8_OnlyRateLimitIsRetried ==
    (/\ last.op = "search_cities" /\ last.requests # <<>>
     /\ last.requests[1].response \in {"transport_error", "http_error"})
        => /\ Len(last.requests) = 1
           /\ last.outcome = "raised" /\ last.error = last.requests[1].response

(* C8, amended: a non-429 HTTP error status ends search_cities after that  *)
(* attempt; a transport failure is retried after a fixed 1 s wait, and a   *)
(* 429 after the doubling wait, within the cap of 3 attempts; a fetch      *)
(* sends one request, and no Redis command or database query is repeated.  *)
C8_RetriesOnRateLimitAndTransport ==
    LET n == Len(last.requests)
    IN  /\ last.op = "search_cities"
           => /\ n <= max_retries
              /\ last.cache_ops = <<>> /\ last.db_ops = <<>>
              /\ \A i \in 1..n :
                    /\ last.requests[i].response = "http_error"
                          => (i = n /\ last.outcome = "raised" /\ last.error = "http_error")
                    /\ (last.requests[i].response = "transport_error" /\ i < max_retries)
                          => (n > i /\ last.sleeps[i] = retry_delay)
                    /\ (last.requests[i].response = "transport_error" /\ i = max_retries)
                          => (last.outcome = "raised" /\ last.error = "transport_error")
                    /\ i < n => last.requests[i].response \in {"http_429", "transport_error"}
        /\ Fetched(last)
           => /\ n <= 1
              /\ Count(last.cache_ops, "get") <= 1 /\ Count(last.cache_ops, "setex") <= 1
              /\ Count(last.db_ops, "first") <= 1
              /\ Count(last.db_ops, "update_or_create") <= 1

C8_Witness ==
    /\ last.op = "search_cities" /\ Len(last.requests) = 3
    /\ last.requests[1].response = "transport_error"
    /\ last.requests[2].response = "transport_error"
    /\ last.requests[3].response = "http_error"
    /\ last.sleeps = <<1, 1>>

(* C9: a database failure never makes a fetch fail: whether the query that *)
(* seeds the today merge or the upsert raises, the fetch still returns the *)
(* list built from the provider's answer.                                  *)
C9_StoreFailuresAreAbsorbed ==
    (/\ Fetched(last)
     /\ \E i \in 1..Len(last.db_ops) : last.db_ops[i][2] = "db_error"
     /\ WeatherRequests(last) # <<>> /\ WeatherRequests(last)[1].response = "ok")
        => /\ last.outcome = "returned"
           /\ last.fresh = Some(last.data)

(* C10: the table never holds two rows for one (city, period); a           *)
(* successful cache-miss fetch leaves exactly one row for its key, holding *)
(* the returned list and the time of the fetch, and an existing row is     *)
(* updated in place, every other row staying as it was.                    *)
C10_OneRowPerKey ==
    /\ [](\A r1, r2 \in store :
             (r1.city = r2.city /\ r1.forecast_period = r2.forecast_period) => r1 = r2)
    /\ [][(CallStep /\ Fetched(last') /\ last'.outcome = "returned" /\ last'.fresh # None)
             => LET old == RowsOf(store, last'.city, last'.period)
                    new == RowsOf(store', last'.city, last'.period)
                IN  /\ \E r \in new : /\ new = {r}
                                      /\ r.data = last'.data
                                      /\ r.fetched_at = now + calls
                                      /\ \A o \in old : o.id = r.id
                    /\ old # {} => Cardinality(store') = Cardinality(store)
                    /\ store' \ new = store \ old]_vars

C10_Witness ==
    /\ Fetched(last) /\ last.outcome = "returned" /\ last.fresh # None
    /\ calls = 2
    /\ \E r \in store : /\ r.city = last.city /\ r.forecast_period = last.period
                        /\ r.id = 1 /\ r.fetched_at = now + 1 /\ r.data = last.data
    /\ Cardinality(store) = 1

-----------------------------------------------------------------------------
(* Vocabulary of the CityService properties *)

CitySearched(obs) == obs.op = "CityService.search_cities"
Blank(query) == \A i \in 1..Len(query) : query[i] = " "
PairRows(rows, name, country) == {r \in rows : r.name = name /\ r.country = country}
LastResponse(obs) == obs.requests[Len(obs.requests)]

(* C12: CityService.search_cities with a non-blank query: whenever a       *)
(* stored City has a name that contains the trimmed query, ignoring case,  *)
(* the call returns exactly the stored matches and sends no request to the *)
(* geocoder, with create_in_db true or false.                              *)
C12_DatabaseFirst ==
    [][(/\ CallStep /\ CitySearched(last') /\ ~Blank(last'.query)
        /\ name_icontains(cities, strip(last'.query)) # {})
          => /\ last'.outcome = "returned"
             /\ Range(last'.data) = name_icontains(cities, strip(last'.query))
             /\ Len(last'.data) = Cardinality(name_icontains(cities, strip(last'.query)))
             /\ last'.requests = <<>>]_vars

C12_Witness ==
    /\ CitySearched(last) /\ last.create_in_db /\ last.query = <<"k", "Y">>
    /\ last.data # <<>> /\ last.data[1].name = "Kyiv" /\ last.requests = <<>>
    /\ Cardinality(cities) = 2

(* C13: a search with create_in_db false, and every request to the city    *)
(* search endpoint, leaves the City table as it was; on a local miss it    *)
(* returns the candidates of the geocoder as plain records.                *)
C13_SearchWithoutPersistIsReadOnly ==
    [][(/\ CallStep
        /\ \/ CitySearched(last') /\ ~last'.create_in_db
           \/ last'.op = "city_search_view")
          => /\ cities' = cities
             /\ (last'.requests # <<>> /\ LastResponse(last').response = "ok")
                   => /\ last'.data = _parse_geocoding_response(LastResponse(last').body)
                      /\ last'.data # <<>> => last'.kind = "dict"]_vars

C13_Witness ==
    /\ last.op = "city_search_view" /\ last.status = 200
    /\ last.kind = "dict" /\ Len(last.data) = 2
    /\ Cardinality(cities) = 1

(* C14: a search with create_in_db true on a local miss returns one City   *)
(* per candidate of the geocoder, in the geocoder's order, each the stored *)
(* row of the candidate's (name, country); the table gains a row exactly   *)
(* for the pairs that had none, and the rows that existed stay unchanged.  *)
C14_PersistCreatesMissingRows ==
    [][(/\ CallStep /\ CitySearched(last') /\ last'.create_in_db
        /\ last'.requests # <<>> /\ LastResponse(last').response = "ok")
          => LET api_cities == LastResponse(last').body
             IN  /\ Len(last'.data) = Len(api_cities)
                 /\ \A i \in 1..Len(api_cities) :
                       /\ last'.data[i] \in cities'
                       /\ last'.data[i].name = api_cities[i].name
                       /\ last'.data[i].country = api_cities[i].country
                       /\ PairRows(cities', api_cities[i].name, api_cities[i].country)
                             = {last'.data[i]}
                 /\ cities \subseteq cities'
                 /\ \A r \in cities' \ cities :
                       /\ PairRows(cities, r.name, r.country) = {}
                       /\ \E i \in 1..Len(api_cities) :
                             /\ r.name = api_cities[i].name
                             /\ r.country = api_cities[i].country]_vars

C14_Witness ==
    /\ CitySearched(last) /\ last.create_in_db /\ last.query = <<"K", "i", "e">>
    /\ Len(last.data) = 2
    /\ last.data[1].name = "Kyiv" /\ last.data[1].latitude = 51
    /\ last.data[2].name = "Kiev"
    /\ Cardinality(cities) = 2

(* C15: when the request to the geocoder fails, retries included, the      *)
(* CityService search raises nothing, returns the empty list and leaves    *)
(* the City table as it was.                                               *)
C15_GeocoderFailureGivesEmpty ==
    [][(/\ CallStep /\ CitySearched(last')
        /\ last'.requests # <<>> /\ LastResponse(last').response # "ok")
          => /\ last'.outcome = "returned" /\ last'.error = "none"
             /\ last'.data = <<>>
             /\ cities' = cities]_vars

C15_Witness ==
    /\ CitySearched(last) /\ last.create_in_db
    /\ Len(last.requests) = 3 /\ LastResponse(last).response = "http_429"
    /\ last.data = <<>> /\ cities # {}

(* C16: for an empty or whitespace-only query CityService.search_cities    *)
(* and WeatherService.search_cities return the empty list without a query  *)
(* to the database and without a request to the geocoder.                  *)
C16_BlankQueryGivesEmpty ==
    [][(/\ CallStep /\ last'.op \in {"CityService.search_cities", "search_cities"}
        /\ Blank(last'.query))
          => /\ last'.outcome = "returned" /\ last'.data = <<>>
             /\ last'.requests = <<>> /\ last'.db_ops = <<>>
             /\ cities' = cities /\ store' = store]_vars

C16_Witness ==
    /\ CitySearched(last) /\ last.query = <<" ">> /\ last.data = <<>>
    /\ cities # {}

(* C17: get_or_create_city called twice in sequence with the same name,    *)
(* country, lat and lon returns created True and then False when the pair  *)
(* was not stored, the same City both times, and afterwards the table      *)
(* holds exactly one row for that (name, country).                         *)
C17_GetOrCreateIdempotent ==
    [][(CallStep /\ last'.op = "get_or_create_city_twice")
          => LET name == last'.query[1]
                 country == last'.query[2]
             IN  /\ PairRows(cities, name, country) = {}
                       => last'.created = <<TRUE, FALSE>>
                 /\ last'.created[2] = FALSE
                 /\ last'.data[1] = last'.data[2]
                 /\ PairRows(cities', name, country) = {last'.data[1]}]_vars

C17_Witness ==
    /\ last.op = "get_or_create_city_twice" /\ last.created = <<TRUE, FALSE>>
    /\ last.data[1].id = 2 /\ last.data[2].id = 2
    /\ Cardinality(cities) = 2

(* C18: under every interleaving of concurrent get_or_create_city and      *)
(* search_cities(create_in_db=True) calls the City table never holds two   *)
(* rows with one (name, country); concurrent get_or_create_city calls on   *)
(* one pair all return without error, all return the same row, at most one *)
(* reports created=True, and exactly one when nothing else stored the pair.*)
C18_NoDuplicateCityUnderRaces ==
    LET done == {w \in DOMAIN running : running[w].pc = "done"}
        goc == {w \in done : running[w].op = "get_or_create_city"}
        same(v, w) == /\ running[v].data[1].name = running[w].data[1].name
                      /\ running[v].data[1].country = running[w].data[1].country
    IN  /\ \A r1, r2 \in cities :
              (r1.name = r2.name /\ r1.country = r2.country) => r1 = r2
        /\ \A w \in done : running[w].outcome = "returned" /\ running[w].error = "none"
        /\ \A w \in goc : /\ Len(running[w].data) = 1
                          /\ running[w].data[1] \in cities
        /\ \A v, w \in goc :
              same(v, w) => /\ running[v].data[1] = running[w].data[1]
                            /\ (running[v].created[1] /\ running[w].created[1]) => v = w
        /\ (\A w \in DOMAIN running : running[w].op = "get_or_create_city")
              => \A w \in goc : \E v \in DOMAIN running :
                    /\ running[v].created = <<TRUE>>
                    /\ running[v].data[1] = running[w].data[1]

C18_Witness ==
    /\ DOMAIN running = Workers
    /\ \A w \in Workers : running[w].op = "get_or_create_city" /\ running[w].pc = "done"
    /\ \E w \in Workers : running[w].created = <<FALSE>>
    /\ Cardinality(cities) = 1
    /\ \E v, w \in Workers : v # w /\ running[v].created = <<TRUE>>
                                   /\ Len(running[w].data) = 1
                                   /\ running[w].data[1].latitude = 51
                                   /\ running[v].data[1].latitude = 51

-----------------------------------------------------------------------------
(* C19: under every interleaving of concurrent cache-miss fetches of one   *)
(* (city, period), every fetch returns without error, and once they are    *)
(* done the table holds exactly one row for the key and Redis one entry    *)
(* for the key, each holding the list built by one of those fetches.       *)
C19_ConcurrentMissesConverge ==
    \A city \in Cities, period \in RacePeriods :
        LET on_key == {w \in DOMAIN running :
                          running[w].city = city /\ running[w].period = period}
            missed == {w \in on_key : running[w].pc = "done" /\ running[w].cached = None}
            built == {running[w].weather_data[1] : w \in missed}
        IN  /\ \A w \in on_key : running[w].outcome = "returned" /\ running[w].error = "none"
            /\ \A w \in missed : running[w].data = running[w].weather_data[1]
            /\ Cardinality(RowsOf(store, city, period)) <= 1
            /\ (missed # {} /\ \A w \in on_key : running[w].pc = "done")
                  => /\ \E r \in store : /\ RowsOf(store, city, period) = {r}
                                         /\ r.data \in built
                     /\ redis_client
                           => /\ <<"weather", city, period>> \in DOMAIN cache
                              /\ Loads(cache[<<"weather", city, period>>].value) \in built

C19_Witness ==
    /\ redis_client
    /\ DOMAIN running = Workers
    /\ \A w \in Workers : /\ running[w].pc = "done" /\ running[w].cached = None
                          /\ running[w].period = "current"
    /\ \E v, w \in Workers :
          /\ running[v].data # running[w].data
          /\ \E r \in store : r.data = running[v].data
          /\ Loads(cache[<<"weather", 1, "current">>].value) = running[w].data

-----------------------------------------------------------------------------
(* C20: for "today" with a stored snapshot, at every UTC offset, the       *)
(* merged list holds every freshly fetched schedule point and every stored *)
(* point of the current local day on a schedule hour that no fresh point   *)
(* covers, and nothing else; it is ordered by timestamp ascending.         *)
C20_MergeKeepsFreshAndFillsGaps ==
    last.op = "_merge_today_data"
        => LET local_hour(item) == HourOf(item.dt + tz)
               local_day(item) == DayOf(item.dt + tz)
               fresh == Range(last.new_data)
               kept == {s \in Range(last.saved_data) :
                           /\ local_day(s) = DayOf(now + tz)
                           /\ local_hour(s) \in {2, 5, 8, 11, 14, 17, 20, 23}
                           /\ \A n \in fresh : local_hour(n) # local_hour(s)}
           IN  /\ Range(last.data) = fresh \cup kept
               /\ Len(last.data) = Cardinality(fresh \cup kept)
               /\ \A i \in 1..(Len(last.data) - 1) : last.data[i].dt < last.data[i + 1].dt

-----------------------------------------------------------------------------
(* Vocabulary of the parser properties *)

Parsed(period) == last.op = "_parse_forecast_response" /\ last.period = period

(* strictly ascending timestamps *)
Ascending(data) == \A i \in 1..(Len(data) - 1) : data[i].dt < data[i + 1].dt

(* the places of the stream whose local time, at offset `off`, is on local *)
(* day `day` at a schedule hour                                            *)
OnSchedule(stream, off, day) ==
    {i \in 1..Len(stream) : /\ DayOf(stream[i].dt + off) = day
                            /\ HourOf(stream[i].dt + off) \in {2, 5, 8, 11, 14, 17, 20, 23}}

(* what a location at offset `off` gets for today from the same stream *)
TodayAt(off) ==
    _parse_forecast_response([last.api_data EXCEPT !.timezone_offset = Some(off)],
                             "today", now)

(* two locations get one and the same point for one and the same local hour *)
SameHourSameInstant(off1, off2) ==
    \E p \in Range(TodayAt(off1)), q \in Range(TodayAt(off2)) :
        HourOf(p.dt + off1) = HourOf(q.dt + off2) /\ p.dt = q.dt

TodaySelection ==
    LET stream == last.api_data.hourly
        chosen == OnSchedule(stream, tz, DayOf(now + tz))
    IN  /\ Len(last.data) = Cardinality(chosen)
        /\ Range(last.data) = {parsed_item(stream[i]) : i \in chosen}
        /\ Ascending(last.data)

(* C21, as stated: for today the parser selects exactly the points of the  *)
(* hourly stream whose local time is on the current local day at a local  *)
(* hour in {2,5,8,11,14,17,20,23}, in ascending order; and two locations   *)
(* with different offsets never get the same UTC instant for the same      *)
(* local schedule hour.                                                    *)
C21_TodayOnLocalSchedule ==
    Parsed("today")
        => /\ TodaySelection
           /\ \A off \in ParseOffsets \ {tz} : ~SameHourSameInstant(tz, off)

(* C21, amended: the same selection; two locations whose offsets differ by *)
(* at least one hour and at most 23 hours never get the same UTC instant   *)
(* for the same local schedule hour.                                       *)
C21_TodayOnLocalScheduleApart ==
    Parsed("today")
        => /\ TodaySelection
           /\ \A off \in ParseOffsets :
                 (Abs(off - tz) >= HOUR /\ Abs(off - tz) <= 23 * HOUR)
                    => ~SameHourSameInstant(tz, off)

C21_Witness ==
    /\ Parsed("today") /\ tz = 7200
    /\ Len(last.data) >= 3
    /\ TodayAt(0) # <<>>
    /\ Range(last.data) # Range(TodayAt(0))

(* the points of the stream on the local day after the current one *)
TomorrowCandidates(stream, off) ==
    {parsed_item(stream[i]) : i \in {j \in 1..Len(stream) :
                                  DayOf(stream[j].dt + off) = DayOf(now + off) + 1}}

(* seconds between the local time of day of a point and local hour h, the *)
(* shorter way round the clock                                            *)
Distance(p, h, off) ==
    LET d == Abs((p.dt + off) - (DayOf(p.dt + off) * DAY + h * HOUR))
    IN  IF d > 12 * HOUR THEN DAY - d ELSE d

(* the candidates within 60 minutes of local hour h *)
Within(cands, h, off) == {p \in cands : Distance(p, h, off) <= TOLERANCE * 60}

(* C22: for tomorrow every selected point is on the next local day; for    *)
(* each schedule hour at most one point within 60 minutes of it is         *)
(* selected, and that point is a candidate closest in time to the hour (a  *)
(* point exactly on the hour if there is one); every selected point        *)
(* belongs to one schedule hour and is selected once.                      *)
C22_TomorrowClosestPoint ==
    Parsed("tomorrow")
        => LET cands == TomorrowCandidates(last.api_data.hourly, tz)
               sel == Range(last.data)
           IN  /\ sel \subseteq cands
               /\ Len(last.data) = Cardinality(sel)
               /\ \A p \in sel : \E h \in target_hour_set : p \in Within(cands, h, tz)
               /\ \A h \in target_hour_set :
                     LET near == Within(cands, h, tz)
                     IN  /\ Cardinality(sel \cap near) <= 1
                         /\ \A p \in sel \cap near : \A q \in near :
                               Distance(p, h, tz) <= Distance(q, h, tz)

(* the normalised points of a section of the body, in upstream order *)
Normalised(section) == [i \in 1..Len(section) |-> parsed_item(section[i])]

IsList(data) == DOMAIN data = 1..Len(data)

(* C23: the snapshot is a list for every period: exactly 1 point for       *)
(* current; for hourly the leading points of the hourly stream in upstream *)
(* order, at most 48; at most 8 points for today and tomorrow, merged or   *)
(* not; the first 3 daily points for 3days and the first 7 for week when   *)
(* the body has at least that many.                                        *)
C23_SnapshotShape ==
    /\ last.op \in {"_parse_current_response", "_parse_forecast_response",
                    "_merge_today_data"} => IsList(last.data)
    /\ last.op = "_parse_current_response" => Len(last.data) = 1
    /\ Parsed("hourly")
          => /\ Len(last.data) <= 48
             /\ last.data = Take(Normalised(last.api_data.hourly), Len(last.data))
    /\ (Parsed("today") \/ Parsed("tomorrow")) => Len(last.data) <= 8
    /\ last.op = "_merge_today_data" => Len(last.data) <= 8
    /\ (Parsed("3days") /\ Len(last.api_data.daily) >= 3)
          => last.data = Take(Normalised(last.api_data.daily), 3)
    /\ (Parsed("week") /\ Len(last.api_data.daily) >= 7)
          => last.data = Take(Normalised(last.api_data.daily), 7)

C23_Witness ==
    /\ Parsed("week")
    /\ Len(last.api_data.daily) > 7
    /\ Len(last.data) = 7

(* the section of the body a period is parsed from *)
SectionOf(api_data, period) ==
    IF period \in {"hourly", "today", "tomorrow"} THEN api_data.hourly ELSE api_data.daily

(* C28: a temperature object becomes temp = its day value (its min value   *)
(* when day is absent, 0 when both are), temp_min and temp_max = its min   *)
(* and max; a plain number becomes temp, with temp_min and temp_max null;  *)
(* a feels_like object with a day value becomes that value; temp is never  *)
(* an object.                                                              *)
C28_Normalisation ==
    (Parsed("hourly") \/ Parsed("3days") \/ Parsed("week"))
        => \A i \in 1..Len(last.data) :
              LET raw == SectionOf(last.api_data, last.period)[i]
                  p == last.data[i]
              IN  /\ p.dt = raw.dt
                  /\ p.temp \in Int
                  /\ p.feels_like \in Int
                  /\ raw.temp.kind = "dict"
                        => /\ raw.temp.day # None => p.temp = raw.temp.day[1]
                           /\ (raw.temp.day = None /\ raw.temp.min # None)
                                 => p.temp = raw.temp.min[1]
                           /\ (raw.temp.day = None /\ raw.temp.min = None) => p.temp = 0
                           /\ p.temp_min = raw.temp.min
                           /\ p.temp_max = raw.temp.max
                  /\ raw.temp.kind = "num"
                        => /\ p.temp = raw.temp.num
                           /\ p.temp_min = None
                           /\ p.temp_max = None
                  /\ (raw.feels_like.kind = "dict" /\ raw.feels_like.day # None)
                        => p.feels_like = raw.feels_like.day[1]

C28_Witness ==
    /\ Parsed("3days")
    /\ Len(last.data) = 3
    /\ last.api_data.daily[1].temp.kind = "dict"
    /\ last.api_data.daily[1].temp.day = None
    /\ last.api_data.daily[1].temp.min # None
    /\ last.data[1].temp = last.api_data.daily[1].temp.min[1]
    /\ last.api_data.daily[1].feels_like.kind = "dict"
    /\ last.api_data.daily[1].feels_like.day # None

-----------------------------------------------------------------------------
(* a fetch that found a usable cache entry *)
CacheHit(obs) == Fetched(obs) /\ obs.cached # None /\ Truthy(obs.cached[1])

(* C24: on a cache hit the fetch returns the cached snapshot whatever the  *)
(* timezone request does: offset 0 when the request fails in transport,    *)
(* with an error status or with an undecodable body, the offset of the     *)
(* provider when it succeeds.                                              *)
C24_HitSurvivesTimezoneFailure ==
    CacheHit(last)
        => /\ last.outcome = "returned"
           /\ last.error = "none"
           /\ last.data = last.cached[1]
           /\ Len(last.requests) = 1
           /\ last.requests[1].exclude = ExcludeTimezoneOnly
           /\ (last.requests[1].response # "ok" \/ last.requests[1].body = <<"malformed">>)
                 => last.timezone_offset = 0
           /\ (last.requests[1].response = "ok" /\ last.requests[1].body = <<"full">>)
                 => last.timezone_offset = tz

C24_Witness ==
    /\ CacheHit(last)
    /\ tz # 0
    /\ last.requests[1].response = "ok"
    /\ last.requests[1].body = <<"malformed">>
    /\ last.outcome = "returned"
    /\ last.timezone_offset = 0

-----------------------------------------------------------------------------
(* the period parameter as the client sent it, nothing trimmed *)
AsSent(raw) ==
    IF raw = None THEN "current"
    ELSE IF raw[1] = <<>> THEN "" ELSE IF Len(raw[1]) = 1 THEN raw[1][1] ELSE "?"

Viewed(obs) == obs.op = "weather_view"

(* what the view answers once the period `period` has been read *)
ViewAnswers(period) ==
    /\ period \notin {"current", "hourly", "today", "tomorrow", "3days", "week"}
          => /\ last.status = 400
             /\ last.lookups = 0
             /\ last.engine = None
    /\ (/\ period \in {"current", "hourly", "today", "tomorrow", "3days", "week"}
        /\ last.city \notin {r.id : r \in cities})
          => /\ last.status = 404
             /\ last.engine = None
    /\ (last.engine # None /\ last.engine[1].outcome = "raised")
          => /\ last.status = 500
             /\ last.body = [error |-> FetchFailedMessage]

(* C25, as stated: a period outside {current, hourly, today, tomorrow,     *)
(* 3days, week} is answered 400 before the city is looked up and without   *)
(* the engine; an unknown city id with a valid period is answered 404      *)
(* without the engine; any error of the engine is answered 500 with the    *)
(* fixed generic message.                                                  *)
C25_ViewStatusCodes == Viewed(last) => ViewAnswers(AsSent(last.raw))

(* C25, amended: the same, the period being the parameter with surrounding *)
(* whitespace trimmed.                                                     *)
C25_ViewStatusCodesTrimmed == Viewed(last) => ViewAnswers(query_period(last.raw))

C25_Witness ==
    /\ Viewed(last)
    /\ last.raw = Some(<<" ", "today", " ">>)
    /\ last.status = 500
    /\ last.engine[1].error = "http_error"
    /\ last.engine[1].requests # <<>>

-----------------------------------------------------------------------------
(* C26: an inactive subscription is never due, never notified or not; an   *)
(* active one never notified is due; an active one notified before is due  *)
(* exactly when the time since last_notified_at is at least its period in  *)
(* hours.                                                                  *)
C26_DueForNotification ==
    last.op = "is_due_for_notification"
        => LET self == last.self
           IN  /\ ~self.is_active => last.result = FALSE
               /\ (self.is_active /\ self.last_notified_at = None) => last.result = TRUE
               /\ (self.is_active /\ self.last_notified_at # None)
                     => (last.result
                            <=> (last.now - self.last_notified_at[1]) >= self.period * 3600)

C26_Witness ==
    /\ last.op = "is_due_for_notification"
    /\ last.self.is_active
    /\ last.self.period = 3
    /\ last.self.last_notified_at = Some(last.now - 3 * 3600)
    /\ last.result = TRUE

-----------------------------------------------------------------------------
(* a fetch that went past the cache lookup without a usable entry *)
CacheMiss(obs) ==
    /\ Fetched(obs)
    /\ obs.error \notin {"ValueError", "unicode_error"}
    /\ ~CacheHit(obs)

(* what the parsers make of the body the provider sends to this call *)
ParsedUpstream(period, shape) ==
    LET exclude == IF period = "current" THEN ExcludeForCurrent
                   ELSE IF period \in {"hourly", "today", "tomorrow"} THEN ExcludeForHourly
                   ELSE ExcludeForDaily
        api_data == OneCallBody(exclude, shape, Clock, calls + 1)
    IN  IF period = "current" THEN _parse_current_response(api_data)
        ELSE _parse_forecast_response(api_data, period, Clock)

(* C27: on a cache miss the stored snapshot is read only for period today, *)
(* and before the request to the provider (the read is made also when the  *)
(* request then fails); for every other period the snapshot returned is    *)
(* what the parser makes of the provider's response, whatever the store    *)
(* holds.                                                                  *)
C27_StoreReadOnlyForToday ==
    [][(CallStep /\ CacheMiss(last'))
          => /\ last'.period # "today" => Count(last'.db_ops, "first") = 0
             /\ last'.period = "today"
                   => /\ Count(last'.db_ops, "first") = 1
                      /\ last'.db_ops[1][1] = "first"
             /\ (last'.period # "today" /\ last'.outcome = "returned")
                   => \E shape \in BodyShapes :
                         last'.data = ParsedUpstream(last'.period, shape)]_vars

C27_Witness ==
    /\ CacheMiss(last)
    /\ last.period = "today"
    /\ last.outcome = "raised"
    /\ last.error = "http_error"
    /\ last.db_ops = << <<"first", "ok">> >>
    /\ RowsOf(store, last.city, "today") # {}

-----------------------------------------------------------------------------
(* the request for weather data of a cache miss was answered with an error *)
UpstreamFailed(obs) ==
    /\ CacheMiss(obs)
    /\ WeatherRequests(obs) # <<>>
    /\ WeatherRequests(obs)[1].response \in UpstreamErrors

(* C29: a cache-miss fetch whose request to the provider fails raises and  *)
(* leaves every cache entry and every stored row as it was before the call. *)
C29_FailedFetchWritesNothing ==
    [][(CallStep /\ UpstreamFailed(last'))
          => /\ last'.outcome = "raised"
             /\ cache' = cache
             /\ store' = store
             /\ Count(last'.cache_ops, "setex") = 0
             /\ Count(last'.db_ops, "update_or_create") = 0]_vars

C29_Witness ==
    /\ UpstreamFailed(last)
    /\ last.outcome = "raised"
    /\ GetFailed(last)
    /\ KeyOf(last) \in DOMAIN cache
    /\ RowsOf(store, last.city, last.period) # {}

-----------------------------------------------------------------------------
(* no worker is inside a fetch *)
NoFetchInProgress == \A w \in DOMAIN running : running[w].pc = "done"

(* C30: whenever no fetch is in progress (every cache write having         *)
(* succeeded), each cache entry present holds the same list as the row of  *)
(* the table for its (city, period), whatever the interleaving of the      *)
(* fetches was.                                                            *)
C30_CacheAgreesWithStore ==
    NoFetchInProgress
        => \A k \in DOMAIN cache :
              \E r \in store : /\ k = _get_cache_key(r.city, r.forecast_period)
                               /\ Loads(cache[k].value) = r.data

====
